---- MODULE Spec2Model ----
(***************************************************************************)
(* Model of the NSPA contract-record extraction and risk-scoring code of   *)
(* nspa_pdf_processor.py (class NSPAPDFProcessor).                         *)
(*                                                                         *)
(* Text is a sequence of one-character strings, so that upper(), strip()   *)
(* and the substring test `kw in text` are computed, not assumed.          *)
(* Floats are fixed point: a category risk factor and the complexity       *)
(* factor are in tenths, the value risk in units of 1/ValueScale, the      *)
(* sampled variation in units of 1/VariationScale.                         *)
(***************************************************************************)
EXTENDS Integers, Sequences, FiniteSets

VARIABLES
  pc,               \* which call is in progress and whether it has returned
  title,            \* the title argument / title cell text
  title2,           \* second title of a pair of estimate calls
  contract_type,    \* category argument or categorize_contract_type result
  variation,        \* np.random.uniform(0.7, 1.5) sample, in 1/VariationScale
  estimated_value,  \* estimate_contract_value result
  estimated_value2, \* estimate for title2 under the same sample
  bidder_count,     \* count_bidders result / bidder_count argument
  risk_assessment,  \* <<>> or <<dict returned by assess_contract_risk>>
  row,              \* the table row handed to the row parser
  contract_info,    \* <<>> (None) or <<record>> returned for row
  file_year,        \* the file_year argument
  tables_data,      \* input of parse_nspa_contract_data
  table_index,      \* index of the table being processed
  header_row,       \* header index found in the current table (0: none yet)
  table_len,        \* len(table) of the current table
  row_index,        \* index of the next row of the current table
  contracts,        \* the accumulating result list
  output,           \* the messages printed so far
  companies_arg,    \* the companies_text argument
  is_multi_national,\* is_multinational_contract result
  folders,          \* the input folder as listed and read by each call so far
  pdf_files,        \* the .pdf names of the listing, in listing order
  file_index,       \* index in pdf_files of the file being processed
  all_contracts,    \* the list process_all_pdfs accumulates
  processed_contracts, \* self.processed_contracts
  written,          \* the output files written so far, in order
  document_data,    \* the argument of classify_document_risk
  risk_classification, \* classify_document_risk result
  documents,        \* the documents handed to process_document so far
  processed_documents, \* self.processed_documents
  dashboard,        \* <<>> or <<rows charted by generate_insights_dashboard>>
  summary_report,   \* <<>> or <<figures printed by generate_summary_report>>
  content_arg,      \* the content argument of extract_requirements
  requirements_out  \* extract_requirements result

\* argument and result of the row parser
row_vars == <<row, contract_info>>

\* locals of parse_nspa_contract_data
parse_vars == <<tables_data, table_index, table_len, header_row, row_index,
                contracts>>

\* argument and second result of the bidder text functions
bidder_vars == <<companies_arg, is_multi_national>>

\* locals of process_all_pdfs, the object's list and the file system
files_vars == <<folders, pdf_files, file_index, all_contracts,
                processed_contracts, written>>

\* state of the document pipeline of nato_document_processor.py
doc_vars == <<document_data, risk_classification, documents, processed_documents,
              dashboard, summary_report, content_arg, requirements_out>>

vars == <<pc, title, title2, contract_type, variation, estimated_value,
          estimated_value2, bidder_count, risk_assessment, row_vars, file_year,
          parse_vars,
          output, bidder_vars, files_vars, doc_vars>>

(***************************************************************************)
(* Text primitives (Python str)                                            *)
(***************************************************************************)
LowerAlphabet == <<"a", "b", "c", "d", "e", "f", "g", "h", "i", "j", "k", "l", "m",
                   "n", "o", "p", "q", "r", "s", "t", "u", "v", "w", "x", "y", "z">>

UpperAlphabet == <<"A", "B", "C", "D", "E", "F", "G", "H", "I", "J", "K", "L", "M",
                   "N", "O", "P", "Q", "R", "S", "T", "U", "V", "W", "X", "Y", "Z">>

\* the upper-case letter of each lower-case letter
ToUpper ==
  [c \in {LowerAlphabet[i] : i \in 1..Len(LowerAlphabet)} |->
     UpperAlphabet[CHOOSE i \in 1..Len(LowerAlphabet) : LowerAlphabet[i] = c]]

upper_char(c) == IF c \in DOMAIN ToUpper THEN ToUpper[c] ELSE c

\* str.upper()
upper(s) == [i \in 1..Len(s) |-> upper_char(s[i])]

\* `k in t` for two strings
Contains(t, k) ==
  \E i \in 0..(Len(t) - Len(k)) : \A j \in 1..Len(k) : t[i + j] = k[j]

\* any(kw in text for kw in keywords)
any_in(keywords, text) == \E i \in 1..Len(keywords) : Contains(text, keywords[i])

IsSpace(c) == c \in {" ", "\n", "\t"}

SetMin(S) == CHOOSE x \in S : \A y \in S : x <= y
SetMax(S) == CHOOSE x \in S : \A y \in S : x >= y

\* str.strip()
strip(s) ==
  LET keep == {i \in 1..Len(s) : ~IsSpace(s[i])}
  IN  IF keep = {} THEN <<>> ELSE SubSeq(s, SetMin(keep), SetMax(keep))

\* str.count(c)
count_char(s, c) == Cardinality({i \in 1..Len(s) : s[i] = c})

Min2(a, b) == IF a <= b THEN a ELSE b
Max2(a, b) == IF a >= b THEN a ELSE b

(***************************************************************************)
(* Keyword tables of the source                                            *)
(***************************************************************************)
categories ==
  <<[name |-> "Ammunition", keywords |->
      <<<<"C", "A", "R", "T", "R", "I", "D", "G", "E">>,
        <<"P", "R", "O", "J", "E", "C", "T", "I", "L", "E">>,
        <<"M", "O", "R", "T", "A", "R">>,
        <<"B", "O", "M", "B", "S">>,
        <<"M", "U", "N", "I", "T", "I", "O", "N">>>>],
    [name |-> "Logistics_Support", keywords |->
      <<<<"L", "O", "G", "I", "S", "T", "I", "C">>,
        <<"S", "U", "P", "P", "O", "R", "T">>,
        <<"M", "A", "I", "N", "T", "E", "N", "A", "N", "C", "E">>,
        <<"S", "U", "P", "P", "L", "Y">>>>],
    [name |-> "IT_Infrastructure", keywords |->
      <<<<"M", "I", "C", "R", "O", "S", "O", "F", "T">>,
        <<"I", "N", "F", "R", "A", "S", "T", "R", "U", "C", "T", "U", "R", "E">>,
        <<"S", "O", "F", "T", "W", "A", "R", "E">>,
        <<"S", "Y", "S", "T", "E", "M">>>>],
    [name |-> "Medical_Equipment", keywords |->
      <<<<"M", "E", "D", "I", "C", "A", "L">>,
        <<"S", "U", "R", "G", "I", "C", "A", "L">>,
        <<"H", "E", "A", "T", "E", "R">>,
        <<"I", "N", "F", "U", "S", "I", "O", "N">>>>],
    [name |-> "Communications", keywords |->
      <<<<"C", "O", "M", "M", "U", "N", "I", "C", "A", "T", "I", "O", "N">>,
        <<"S", "A", "T", "E", "L", "L", "I", "T", "E">>,
        <<"C", "I", "S">>,
        <<"S", "H", "E", "L", "T", "E", "R">>>>],
    [name |-> "Vehicles_Transport", keywords |->
      <<<<"V", "E", "H", "I", "C", "L", "E">>,
        <<"T", "R", "U", "C", "K">>,
        <<"T", "R", "A", "I", "L", "E", "R">>,
        <<"C", "A", "R", "G", "O">>>>],
    [name |-> "Construction", keywords |->
      <<<<"C", "O", "N", "S", "T", "R", "U", "C", "T", "I", "O", "N">>,
        <<"B", "U", "I", "L", "D", "I", "N", "G">>,
        <<"W", "A", "R", "E", "H", "O", "U", "S", "E">>>>],
    [name |-> "Training", keywords |->
      <<<<"T", "R", "A", "I", "N", "I", "N", "G">>,
        <<"S", "I", "M", "U", "L", "A", "T", "O", "R">>,
        <<"S", "E", "R", "V", "I", "C", "E", "S">>>>],
    [name |-> "Fuel_Energy", keywords |->
      <<<<"F", "U", "E", "L">>,
        <<"G", "E", "N", "E", "R", "A", "T", "O", "R">>,
        <<"P", "O", "W", "E", "R">>,
        <<"U", "P", "S">>>>],
    [name |-> "Defense_Systems", keywords |->
      <<<<"D", "E", "F", "E", "N", "S", "E">>,
        <<"S", "E", "C", "U", "R", "I", "T", "Y">>,
        <<"G", "B", "A", "D">>,
        <<"R", "A", "D", "A", "R">>>>]>>

multipliers ==
  <<[keyword |-> <<"S", "A", "T", "E", "L", "L", "I", "T", "E">>, mult |-> 50],
    [keyword |-> <<"S", "I", "M", "U", "L", "A", "T", "O", "R">>, mult |-> 20],
    [keyword |-> <<"C", "O", "N", "S", "T", "R", "U", "C", "T", "I", "O", "N">>, mult |-> 15],
    [keyword |-> <<"A", "I", "R", "C", "R", "A", "F", "T">>, mult |-> 30],
    [keyword |-> <<"A", "M", "M", "U", "N", "I", "T", "I", "O", "N">>, mult |-> 5],
    [keyword |-> <<"M", "E", "D", "I", "C", "A", "L">>, mult |-> 3],
    [keyword |-> <<"V", "E", "H", "I", "C", "L", "E">>, mult |-> 8],
    [keyword |-> <<"F", "U", "E", "L">>, mult |-> 10],
    [keyword |-> <<"T", "R", "A", "I", "N", "I", "N", "G">>, mult |-> 4]>>

complexity_keywords ==
  <<<<"S", "A", "T", "E", "L", "L", "I", "T", "E">>,
    <<"S", "I", "M", "U", "L", "A", "T", "O", "R">>,
    <<"C", "Y", "B", "E", "R">>,
    <<"A", "I">>,
    <<"A", "D", "V", "A", "N", "C", "E", "D">>>>

\* high_tech without SIMULATOR
high_tech_short ==
  <<<<"S", "A", "T", "E", "L", "L", "I", "T", "E">>,
    <<"A", "I">>,
    <<"C", "Y", "B", "E", "R">>,
    <<"A", "D", "V", "A", "N", "C", "E", "D">>,
    <<"R", "A", "D", "A", "R">>>>

high_tech ==
  <<<<"S", "A", "T", "E", "L", "L", "I", "T", "E">>,
    <<"A", "I">>,
    <<"C", "Y", "B", "E", "R">>,
    <<"A", "D", "V", "A", "N", "C", "E", "D">>,
    <<"S", "I", "M", "U", "L", "A", "T", "O", "R">>,
    <<"R", "A", "D", "A", "R">>>>

medium_tech ==
  <<<<"E", "L", "E", "C", "T", "R", "O", "N", "I", "C">>,
    <<"C", "O", "M", "M", "U", "N", "I", "C", "A", "T", "I", "O", "N">>,
    <<"S", "O", "F", "T", "W", "A", "R", "E">>,
    <<"S", "Y", "S", "T", "E", "M">>>>

countries ==
  <<<<"G", "e", "r", "m", "a", "n", "y">>,
    <<"I", "t", "a", "l", "y">>,
    <<"F", "r", "a", "n", "c", "e">>,
    <<"S", "p", "a", "i", "n">>,
    <<"U", "S", "A">>,
    <<"C", "a", "n", "a", "d", "a">>,
    <<"N", "o", "r", "w", "a", "y">>,
    <<"N", "e", "t", "h", "e", "r", "l", "a", "n", "d", "s">>,
    <<"B", "e", "l", "g", "i", "u", "m">>,
    <<"T", "u", "r", "k", "e", "y">>,
    <<"P", "o", "l", "a", "n", "d">>,
    <<"U", "n", "i", "t", "e", "d", " ", "K", "i", "n", "g", "d", "o", "m">>>>

header_markers ==
  <<<<"C", "O", "L", "L", "E", "C", "T", "I", "V", "E">>,
    <<"R", "F", "P", " ", "T", "I", "T", "L", "E">>,
    <<"C", "L", "O", "S", "I", "N", "G", " ", "D", "A", "T", "E">>,
    <<"C", "O", "M", "P", "A", "N", "I", "E", "S">>>>

header_titles ==
  <<<<"R", "F", "P", " ", "T", "I", "T", "L", "E">>,
    <<"T", "I", "T", "L", "E">>, <<>> >>

BID_OPENING == <<"B", "I", "D", " ", "O", "P", "E", "N", "I", "N", "G">>


(***************************************************************************)
(* categorize_contract_type                                                *)
(***************************************************************************)
RECURSIVE first_category(_, _)
first_category(title_upper, i) ==
  IF i > Len(categories) THEN "Other"
  ELSE IF any_in(categories[i].keywords, title_upper) THEN categories[i].name
  ELSE first_category(title_upper, i + 1)

\* categorize_contract_type matching the keywords against the title as given
categorize_contract_type_cased(t) == first_category(t, 1)

categorize_contract_type(t) == first_category(upper(t), 1)

(***************************************************************************)
(* estimate_contract_value                                                 *)
(***************************************************************************)
base_value == 1000000

\* Unit of the sampled variation: variation / VariationScale is the float.
VariationScale == 10000000
VariationLow == 7000000
VariationHigh == 15000000

\* scan_multipliers keeping the last matching multiplier, not the largest
RECURSIVE scan_multipliers_last(_, _, _)
scan_multipliers_last(title_upper, i, multiplier) ==
  IF i > Len(multipliers) THEN multiplier
  ELSE scan_multipliers_last(title_upper, i + 1,
         IF Contains(title_upper, multipliers[i].keyword)
         THEN multipliers[i].mult
         ELSE multiplier)

RECURSIVE scan_multipliers(_, _, _)
scan_multipliers(title_upper, i, multiplier) ==
  IF i > Len(multipliers) THEN multiplier
  ELSE scan_multipliers(title_upper, i + 1,
         IF Contains(title_upper, multipliers[i].keyword)
         THEN Max2(multiplier, multipliers[i].mult)
         ELSE multiplier)

applied_multiplier(t) == scan_multipliers(upper(t), 1, 1)

\* estimate_contract_value dividing by the multiplier
estimate_contract_value_divided(t, ctype, var) ==
  (var \div applied_multiplier(t)) \div (VariationScale \div base_value)

\* int(base_value * multiplier * variation); the category argument is unused.
\* base_value * (var / VariationScale) is var / (VariationScale / base_value):
\* dividing first keeps the product within 32 bits.
estimate_contract_value(t, ctype, var) ==
  (applied_multiplier(t) * var) \div (VariationScale \div base_value)

(***************************************************************************)
(* count_bidders                                                           *)
(***************************************************************************)
BidderCap == 10

\* count_bidders without the cap
count_bidders_uncapped(companies_text) ==
  IF companies_text = <<>> THEN 0
  ELSE Max2(1, count_char(companies_text, "\n") + 1)

count_bidders(companies_text) ==
  IF companies_text = <<>> THEN 0
  ELSE Max2(1, Min2(count_char(companies_text, "\n") + 1, BidderCap))

(***************************************************************************)
(* assess_contract_risk                                                    *)
(***************************************************************************)
ValueScale == 10000000

\* min(4, value / 10000000), in units of 1/ValueScale
value_risk(value) == Min2(4 * ValueScale, value)

\* competition_risk rating a lone bidder or none as the lowest risk
competition_risk_lone(bidders) == IF bidders <= 1 THEN 1 ELSE Max2(1, 5 - bidders)

competition_risk(bidders) == IF bidders <= 1 THEN 4 ELSE Max2(1, 5 - bidders)

\* the type_risk dict with its .get default, in tenths
type_risk(ctype) ==
  CASE ctype = "Communications"    -> 15
    [] ctype = "IT_Infrastructure" -> 14
    [] ctype = "Defense_Systems"   -> 16
    [] ctype = "Construction"      -> 12
    [] ctype = "Ammunition"        -> 11
    [] ctype = "Medical_Equipment" -> 10
    [] ctype = "Logistics_Support" -> 9
    [] OTHER                       -> 10

\* 1.3 or 1.0, in tenths
complexity_factor(t) == IF any_in(complexity_keywords, upper(t)) THEN 13 ELSE 10

\* value_risk + competition_risk, in units of 1/ValueScale
risk_sum(value, bidders) ==
  value_risk(value) + competition_risk(bidders) * ValueScale

\* type_risk * complexity_factor, in hundredths
risk_factor(t, ctype) == type_risk(ctype) * complexity_factor(t)

\* Sign of base_risk - threshold, where base_risk = sum * factor in units of
\* 1/(100 * ValueScale): -1 below, 0 equal, 1 above.  The product is split
\* into whole and fractional units so that no number exceeds 32 bits.
compare_base_risk(sum, factor, threshold) ==
  LET whole == sum \div ValueScale
      part  == sum % ValueScale
      room  == threshold * 100 - whole * factor
  IN  IF room < 0 THEN 1
      ELSE IF room >= factor THEN -1
      ELSE IF part * factor > room * ValueScale THEN 1
      ELSE IF part * factor = room * ValueScale THEN 0
      ELSE -1

\* likelihood_of with the thresholds read as strict bounds
likelihood_of_strict(sum, factor) ==
  IF compare_base_risk(sum, factor, 3) < 0 THEN "Low"
  ELSE IF compare_base_risk(sum, factor, 6) < 0 THEN "Medium"
  ELSE IF compare_base_risk(sum, factor, 9) < 0 THEN "High"
  ELSE "Very High"

likelihood_of(sum, factor) ==
  IF compare_base_risk(sum, factor, 3) <= 0 THEN "Low"
  ELSE IF compare_base_risk(sum, factor, 6) <= 0 THEN "Medium"
  ELSE IF compare_base_risk(sum, factor, 9) <= 0 THEN "High"
  ELSE "Very High"

\* impact_choices with the Medium tier sampling from the Low tier's list
impact_choices_low(likelihood) ==
  CASE likelihood = "Low"    -> <<"Low", "Medium">>
    [] likelihood = "Medium" -> <<"Low", "Medium">>
    [] likelihood = "High"   -> <<"High", "Very High">>
    [] OTHER                 -> <<"High", "Very High">>

\* the two outcomes np.random.choice can return for a likelihood tier
impact_choices(likelihood) ==
  CASE likelihood = "Low"    -> <<"Low", "Medium">>
    [] likelihood = "Medium" -> <<"Medium", "High">>
    [] likelihood = "High"   -> <<"High", "Very High">>
    [] OTHER                 -> <<"High", "Very High">>

\* risk_mapping with High and Very High both ranked 4
risk_mapping_flat(tier) ==
  CASE tier = "Low" -> 1 [] tier = "Medium" -> 2 [] tier = "High" -> 4
    [] tier = "Very High" -> 4

risk_mapping(tier) ==
  CASE tier = "Low" -> 1 [] tier = "Medium" -> 2 [] tier = "High" -> 3
    [] tier = "Very High" -> 4

\* risk_score adding the ranks instead of multiplying them
risk_score_sum(likelihood, impact) == risk_mapping(likelihood) + risk_mapping(impact)

risk_score(likelihood, impact) == risk_mapping(likelihood) * risk_mapping(impact)

\* complexity_of with the category test read as "at least 1.2"
complexity_of_inclusive(t, ctype) ==
  IF complexity_factor(t) > 12 THEN "High"
  ELSE IF type_risk(ctype) >= 12 THEN "Medium"
  ELSE "Low"

complexity_of(t, ctype) ==
  IF complexity_factor(t) > 12 THEN "High"
  ELSE IF type_risk(ctype) > 12 THEN "Medium"
  ELSE "Low"

\* assess_contract_risk drawing every impact from the list of the Low tier
assess_contract_risk_low_list(t, ctype, value, bidders, draw) ==
  LET likelihood == likelihood_of(risk_sum(value, bidders), risk_factor(t, ctype))
      impact     == impact_choices("Low")[draw]
  IN  [likelihood |-> likelihood,
       impact     |-> impact,
       score      |-> risk_score(likelihood, impact),
       complexity |-> complexity_of(t, ctype)]

\* draw \in 1..2 is the index np.random.choice picks
assess_contract_risk(t, ctype, value, bidders, draw) ==
  LET likelihood == likelihood_of(risk_sum(value, bidders), risk_factor(t, ctype))
      impact     == impact_choices(likelihood)[draw]
  IN  [likelihood |-> likelihood,
       impact     |-> impact,
       score      |-> risk_score(likelihood, impact),
       complexity |-> complexity_of(t, ctype)]

(***************************************************************************)
(* is_multinational_contract, assess_technology_level                      *)
(***************************************************************************)
\* is_multinational_contract satisfied with one country
is_multinational_contract_single(companies_text) ==
  IF companies_text = <<>> THEN FALSE
  ELSE Cardinality({i \in 1..Len(countries) : Contains(companies_text, countries[i])}) > 0

is_multinational_contract(companies_text) ==
  IF companies_text = <<>> THEN FALSE
  ELSE Cardinality({i \in 1..Len(countries) : Contains(companies_text, countries[i])}) > 1

assess_technology_level(t) ==
  IF any_in(high_tech, upper(t)) THEN "High"
  ELSE IF any_in(medium_tech, upper(t)) THEN "Medium"
  ELSE "Low"
(***************************************************************************)
(* Table cells and rows.  pdfplumber yields a string or None per cell; a   *)
(* cell of kind "bad" is a truthy object whose str() raises, the only way  *)
(* into the except branch of extract_contract_details.                     *)
(***************************************************************************)
Cell(s) == [kind |-> "str", text |-> s]
NoneCell == [kind |-> "None", text |-> <<>>]
BadCell == [kind |-> "bad", text |-> <<>>]

\* `if cell`
truthy(cell) == cell.kind = "bad" \/ (cell.kind = "str" /\ cell.text # <<>>)

\* str(cell) raises for some cell of the row
raises(r) == \E i \in 1..Len(r) : r[i].kind = "bad"

\* str(cell).strip() if cell else ""
cleaned_cell(cell) == IF truthy(cell) THEN strip(cell.text) ELSE <<>>

\* is_non_data_title comparing the title as given, without upper()
is_non_data_title_cased(rfp_title) ==
  \/ rfp_title = <<>>
  \/ \E i \in 1..Len(header_titles) : rfp_title = header_titles[i]
  \/ Contains(rfp_title, BID_OPENING)

\* is_non_data_title without the test for an empty title
is_non_data_title_nonempty(rfp_title) ==
  \/ \E i \in 1..Len(header_titles) : upper(rfp_title) = header_titles[i] /\ rfp_title # <<>>
  \/ Contains(upper(rfp_title), BID_OPENING)

\* not rfp_title or rfp_title.upper() in [...] or 'BID OPENING' in rfp_title.upper()
is_non_data_title(rfp_title) ==
  \/ rfp_title = <<>>
  \/ \E i \in 1..Len(header_titles) : upper(rfp_title) = header_titles[i]
  \/ Contains(upper(rfp_title), BID_OPENING)

\* the contract dict; var and draw are the two random samples
build_contract(cleaned_row, year, var, draw) ==
  LET collective_num  == cleaned_row[1]
      rfp_title       == cleaned_row[2]
      closing_date    == cleaned_row[3]
      companies       == cleaned_row[4]
      country         == IF Len(cleaned_row) > 4 THEN cleaned_row[5] ELSE <<>>
      ctype           == categorize_contract_type(rfp_title)
      value           == estimate_contract_value(rfp_title, ctype, var)
      bidders         == count_bidders(companies)
      risk            == assess_contract_risk(rfp_title, ctype, value, bidders, draw)
  IN  [contract_id         |-> collective_num,
       rfp_title           |-> rfp_title,
       contract_type       |-> ctype,
       closing_date        |-> closing_date,
       companies           |-> companies,
       country             |-> country,
       bidder_count        |-> bidders,
       estimated_value_eur |-> value,
       year                |-> year,
       risk_likelihood     |-> risk.likelihood,
       risk_impact         |-> risk.impact,
       risk_score          |-> risk.score,
       complexity_category |-> risk.complexity,
       is_multi_national   |-> is_multinational_contract(companies),
       technology_level    |-> assess_technology_level(rfp_title)]

\* <<>> is None, <<contract>> the returned dict
extract_contract_details(r, year, var, draw) ==
  IF raises(r) THEN <<>>
  ELSE LET cleaned_row == [i \in 1..Len(r) |-> cleaned_cell(r[i])]
       IN  IF Len(cleaned_row) < 4 THEN <<>>
           ELSE IF is_non_data_title(cleaned_row[2]) THEN <<>>
           ELSE <<build_contract(cleaned_row, year, var, draw)>>

\* what extract_contract_details prints for the row: only the except branch
\* prints
extract_messages(r) ==
  IF raises(r) THEN <<<<"Error extracting contract details">>>> ELSE <<>>

\* row_is_skipped asking for the fifth cell too
row_is_skipped_five(r) == r = <<>> \/ Len(r) < 5

\* if not row or len(row) < 4: continue
row_is_skipped(r) == r = <<>> \/ Len(r) < 4

\* the body of the row loop: what the row contributes to contracts
parse_row(r, year, var, draw) ==
  IF row_is_skipped(r) THEN <<>> ELSE extract_contract_details(r, year, var, draw)

\* what the body of the row loop prints for the row
row_messages(r) == IF row_is_skipped(r) THEN <<>> ELSE extract_messages(r)

(***************************************************************************)
(* Header search of parse_nspa_contract_data: str(row).upper() is the repr *)
(* of the list of cells, upper-cased                                       *)
(***************************************************************************)
\* repr of one character inside a str repr (the sample texts hold no quote)
repr_char(c) ==
  CASE c = "\n" -> <<"\\", "n">>
    [] c = "\t" -> <<"\\", "t">>
    [] c = "\\" -> <<"\\", "\\">>
    [] OTHER    -> <<c>>

RECURSIVE repr_text(_)
repr_text(s) == IF s = <<>> THEN <<>> ELSE repr_char(Head(s)) \o repr_text(Tail(s))

repr_cell(cell) ==
  CASE cell.kind = "None" -> <<"N", "o", "n", "e">>
    [] cell.kind = "str"  -> <<"'">> \o repr_text(cell.text) \o <<"'">>
    [] OTHER              -> <<"<", "o", "b", "j", "e", "c", "t", ">">>

RECURSIVE repr_cells(_)
repr_cells(r) ==
  IF r = <<>> THEN <<>>
  ELSE IF Len(r) = 1 THEN repr_cell(r[1])
  ELSE repr_cell(r[1]) \o <<",", " ">> \o repr_cells(Tail(r))

\* str(row) for a list
str_row(r) == <<"[">> \o repr_cells(r) \o <<"]">>

\* row and any(header in str(row).upper() for header in [...])
row_has_header(r) == r # <<>> /\ any_in(header_markers, upper(str_row(r)))


\* the row loop starting at the header row itself
first_data_row_header(header) == header

\* table[header_row + 1:] starts at the row after the header
first_data_row(header) == header + 1

(***************************************************************************)
(* parse_nspa_contract_data as a function of the tables of one file        *)
(***************************************************************************)
\* the index of the first row with a header marker, 0 for None
find_header(table) ==
  LET hits == {i \in 1..Len(table) : row_has_header(table[i])}
  IN  IF hits = {} THEN 0 ELSE SetMin(hits)

RECURSIVE parse_rows(_, _, _, _, _)
\* the row loop from row i on
parse_rows(table, i, year, var, draw) ==
  IF i > Len(table) THEN <<>>
  ELSE parse_row(table[i], year, var, draw) \o parse_rows(table, i + 1, year, var, draw)

\* what one table contributes to contracts
parse_table(table, year, var, draw) ==
  IF table = <<>> \/ Len(table) < 2 THEN <<>>
  ELSE IF find_header(table) = 0 THEN <<>>
  ELSE parse_rows(table, first_data_row(find_header(table)), year, var, draw)

RECURSIVE parse_tables(_, _, _, _, _)
\* the table loop from table t on; draws[t] is the impact draw in table t
parse_tables(tables, t, year, var, draws) ==
  IF t > Len(tables) THEN <<>>
  ELSE parse_table(tables[t], year, var, draws[t])
       \o parse_tables(tables, t + 1, year, var, draws)

parse_nspa_contract_data(tables, year, var, draws) ==
  parse_tables(tables, 1, year, var, draws)

(***************************************************************************)
(* extract_text_from_pdf and process_all_pdfs: file names and results      *)
(***************************************************************************)
\* the lower-case letter of each upper-case letter
ToLower ==
  [c \in {UpperAlphabet[i] : i \in 1..Len(UpperAlphabet)} |->
     LowerAlphabet[CHOOSE i \in 1..Len(UpperAlphabet) : UpperAlphabet[i] = c]]

\* str.lower()
lower(s) == [i \in 1..Len(s) |-> IF s[i] \in DOMAIN ToLower THEN ToLower[s[i]] ELSE s[i]]

\* str.endswith(suffix)
endswith(s, suffix) ==
  Len(s) >= Len(suffix) /\ SubSeq(s, Len(s) - Len(suffix) + 1, Len(s)) = suffix

\* f.lower().endswith('.pdf')
is_pdf_file(f) == endswith(lower(f), <<".", "p", "d", "f">>)

DecimalDigits == <<"0", "1", "2", "3", "4", "5", "6", "7", "8", "9">>

\* \d
is_digit(c) == \E d \in 1..Len(DecimalDigits) : DecimalDigits[d] = c

digit_value(c) == (CHOOSE d \in 1..Len(DecimalDigits) : DecimalDigits[d] = c) - 1

\* the positions where 20(\d{2}) matches
year_matches(pdf_file) ==
  {i \in 1..(Len(pdf_file) - 3) :
     /\ pdf_file[i] = "2" /\ pdf_file[i + 1] = "0"
     /\ is_digit(pdf_file[i + 2]) /\ is_digit(pdf_file[i + 3])}

DefaultYear == 2025

\* int(f"20{year_match.group(1)}") if year_match else 2025
file_year_of(pdf_file) ==
  IF year_matches(pdf_file) = {} THEN DefaultYear
  ELSE LET i == SetMin(year_matches(pdf_file))
       IN  2000 + 10 * digit_value(pdf_file[i + 2]) + digit_value(pdf_file[i + 3])

\* `if table` of the page loop
nonempty_table(table) == table # <<>>

\* the except branch handing back the tables read before the failure
except_result_partial(tables) == tables

\* what extract_text_from_pdf returns as tables from its except branch
except_result(tables) == <<>>

\* self.processed_contracts extended instead of assigned
assigned_contracts_extend(old, new) == old \o new

\* self.processed_contracts = all_contracts
assigned_contracts(old, new) == new

output_folder == "nspa_real_data"

\* save_results leaving out the summary
save_results_two(processed) ==
  IF processed = <<>>
  THEN [files |-> <<>>, printed |-> <<<<"No data to save">>>>]
  ELSE [files   |-> <<<<output_folder, "nspa_contracts_raw.csv">>,
                      <<output_folder, "nspa_ml_training_data.csv">>>>,
        printed |-> <<<<"Files saved in", output_folder>>>>]

\* the files save_results writes, in order, and what it prints
save_results(processed) ==
  IF processed = <<>>
  THEN [files |-> <<>>, printed |-> <<<<"No data to save">>>>]
  ELSE [files   |-> <<<<output_folder, "nspa_contracts_raw.csv">>,
                      <<output_folder, "nspa_ml_training_data.csv">>,
                      <<output_folder, "nspa_analysis_summary.json">>>>,
        printed |-> <<<<"Files saved in", output_folder>>>>]

(***************************************************************************)
(* Sample texts                                                            *)
(***************************************************************************)
W_Satellite == <<"S", "a", "t", "e", "l", "l", "i", "t", "e">>

W_Training == <<"T", "r", "a", "i", "n", "i", "n", "g">>

W_Fuel == <<"F", "u", "e", "l">>

W_Support == <<"S", "u", "p", "p", "o", "r", "t">>

W_Radar == <<"R", "a", "d", "a", "r">>

W_Office == <<"O", "f", "f", "i", "c", "e">>

W_SIMULATOR == <<"S", "I", "M", "U", "L", "A", "T", "O", "R">>

W_Construction == <<"C", "o", "n", "s", "t", "r", "u", "c", "t", "i", "o", "n">>

W_aircraft == <<"a", "i", "r", "c", "r", "a", "f", "t">>

W_Ammunition == <<"A", "m", "m", "u", "n", "i", "t", "i", "o", "n">>

W_Medical == <<"M", "e", "d", "i", "c", "a", "l">>

W_Vehicle == <<"V", "e", "h", "i", "c", "l", "e">>

W_System == <<"S", "y", "s", "t", "e", "m">>

W_Cyber == <<"C", "y", "b", "e", "r">>

W_Repair == <<"R", "e", "p", "a", "i", "r">>

W_Groups == <<"G", "r", "o", "u", "p", "s">>

T_SpecExample == <<"S", "A", "T", "E", "L", "L", "I", "T", "E", " ", "C", "o", "m", "m", "u", "n", "i", "c", "a", "t", "i", "o", "n", " ", "S", "h", "e", "l", "t", "e", "r", " ", "C", "o", "n", "t", "r", "a", "c", "t">>

T_rfp_title == <<" ", "r", "f", "p", " ", "t", "i", "t", "l", "e", " ">>

T_TITLE == <<"T", "I", "T", "L", "E">>

T_Title_colon == <<"T", "i", "t", "l", "e", ":">>

T_bid_opening == <<"B", "i", "d", " ", "O", "p", "e", "n", "i", "n", "g", " ", "2", "0", "2", "4">>

T_blank == <<" ", " ">>

X_NS1 == <<"N", "S", "-", "1">>

X_date == <<"2", "0", "2", "4", "-", "0", "5", "-", "0", "1">>

X_BID == <<"B", "I", "D", " ", "O", "P", "E", "N", "I", "N", "G">>

X_one == <<"A", "c", "m", "e">>

X_two == <<"A", "c", "m", "e", " ", "G", "e", "r", "m", "a", "n", "y", "\n", "B", "o", "l", "t", " ", "I", "t", "a", "l", "y">>

X_DE == <<"D", "E">>

X_COLLECTIVE == <<"C", "o", "l", "l", "e", "c", "t", "i", "v", "e", " ", "N", "o">>

X_RFP == <<"R", "F", "P", " ", "T", "i", "t", "l", "e">>

X_CLOSING == <<"C", "l", "o", "s", "i", "n", "g", " ", "D", "a", "t", "e">>

X_CLOSING_NL == <<"C", "l", "o", "s", "i", "n", "g", "\n", "D", "a", "t", "e">>

X_COMPANIES == <<"C", "o", "m", "p", "a", "n", "i", "e", "s">>

(***************************************************************************)
(* Inputs                                                                  *)
(***************************************************************************)
Tiers == {"Low", "Medium", "High", "Very High"}

CategoryNames == {categories[i].name : i \in 1..Len(categories)} \cup {"Other"}

\* Bidder counts handed to assess_contract_risk: 0..MaxBidderCount
MaxBidderCount == 10

\* Values handed to assess_contract_risk: the multiples of 1.25M EUR up to
\* MaxValueUnits of them, and each of these plus one
MaxValueUnits == 33

RiskValues ==
  UNION {{k * 1250000, k * 1250000 + 1} : k \in 0..MaxValueUnits}

RiskTitles == {<<>>, W_Office, W_Satellite, W_Training}

\* no row parser call and no parse in progress
NoRow == row = <<>> /\ contract_info = <<>> /\ file_year = 2025

NoParse ==
  /\ tables_data = <<>> /\ table_index = 0 /\ table_len = 0 /\ header_row = 0
  /\ row_index = 0
  /\ contracts = <<>>

NoOutput == output = <<>>

\* no document handed to the document pipeline
\* no extract_requirements call made
NoRequirements == content_arg = <<>> /\ requirements_out = <<>>

NoDocs ==
  /\ document_data = <<>> /\ risk_classification = ""
  /\ documents = <<>> /\ processed_documents = <<>>
  /\ dashboard = <<>> /\ summary_report = <<>>
  /\ NoRequirements

\* no process_all_pdfs call made
NoFiles ==
  /\ folders = <<>> /\ pdf_files = <<>> /\ file_index = 0
  /\ all_contracts = <<>> /\ processed_contracts = <<>> /\ written = <<>>

\* no bidder text function call in progress
NoBidders == companies_arg = <<>> /\ is_multi_national = FALSE

\* no title or risk function call in progress
NoCall ==
  /\ title = <<>> /\ title2 = <<>> /\ contract_type = "Other"
  /\ variation = VariationScale /\ estimated_value = 0 /\ estimated_value2 = 0
  /\ bidder_count = 0 /\ risk_assessment = <<>>

(***************************************************************************)
(* assess_contract_risk as an operation: any title, category, value and    *)
(* bidder count, and either outcome of the impact draw                     *)
(***************************************************************************)
InitRisk ==
  /\ pc = "risk_call"
  /\ title \in RiskTitles
  /\ contract_type \in CategoryNames
  /\ estimated_value \in RiskValues
  /\ bidder_count \in 0..MaxBidderCount
  /\ title2 = <<>> /\ variation = VariationScale /\ estimated_value2 = 0
  /\ risk_assessment = <<>> /\ NoRow /\ NoParse
  /\ NoOutput /\ NoBidders
  /\ NoFiles
  /\ NoDocs

AssessContractRisk ==
  /\ pc = "risk_call"
  /\ \E draw \in 1..2 :
       risk_assessment' = <<assess_contract_risk(title, contract_type,
                                                 estimated_value, bidder_count, draw)>>
  /\ pc' = "risk_return"
  /\ UNCHANGED <<title, title2, contract_type, variation, estimated_value,
                 estimated_value2, bidder_count, row_vars, file_year,
                 parse_vars,
                 output, bidder_vars, files_vars, doc_vars>>

NextRisk == AssessContractRisk

SpecRisk == InitRisk /\ [][NextRisk]_vars

(***************************************************************************)
(* Claims about assess_contract_risk                                       *)
(***************************************************************************)
Rank(tier) ==
  CASE tier = "Low" -> 1 [] tier = "Medium" -> 2 [] tier = "High" -> 3
    [] tier = "Very High" -> 4

RiskReturned == pc = "risk_return"

\* C1: the score of every assessment is rank(likelihood) * rank(impact) with
\* ranks Low=1, Medium=2, High=3, Very High=4, hence one of
\* 1, 2, 3, 4, 6, 8, 9, 12, 16.
C1_ScoreIsRankProduct ==
  RiskReturned =>
    LET r == risk_assessment[1]
    IN  /\ r.likelihood \in Tiers
        /\ r.impact \in Tiers
        /\ r.score = Rank(r.likelihood) * Rank(r.impact)
        /\ r.score \in {1, 2, 3, 4, 6, 8, 9, 12, 16}

C1_Witness ==
  /\ RiskReturned
  /\ risk_assessment[1].likelihood = "Very High"
  /\ risk_assessment[1].impact = "High"
  /\ risk_assessment[1].score = 12

\* The claimed sub-scores, written out from the claim's numbers.
ClaimedValueRisk ==
  IF estimated_value >= 40000000 THEN 40000000 ELSE estimated_value

ClaimedCompetitionRisk ==
  IF bidder_count <= 1 THEN 4
  ELSE IF 5 - bidder_count >= 1 THEN 5 - bidder_count ELSE 1

ClaimedSum == ClaimedValueRisk + ClaimedCompetitionRisk * 10000000

ClaimedFactor == type_risk(contract_type) * complexity_factor(title)

\* base_risk <= threshold for the claimed base_risk
ClaimedAtMost(threshold) ==
  compare_base_risk(ClaimedSum, ClaimedFactor, threshold) <= 0

\* C7: likelihood is Low iff base_risk <= 3, Medium iff 3 < base_risk <= 6,
\* High iff 6 < base_risk <= 9, Very High iff base_risk > 9, with
\* base_risk = (value_risk + competition_risk) * type_risk * complexity_factor,
\* value_risk = min(4, value / 10,000,000) and competition_risk = 4 for at
\* most one bidder, else max(1, 5 - bidder_count).
C7_LikelihoodThresholds ==
  RiskReturned =>
    LET l == risk_assessment[1].likelihood
    IN  /\ (l = "Low") <=> ClaimedAtMost(3)
        /\ (l = "Medium") <=> (~ClaimedAtMost(3) /\ ClaimedAtMost(6))
        /\ (l = "High") <=> (~ClaimedAtMost(6) /\ ClaimedAtMost(9))
        /\ (l = "Very High") <=> ~ClaimedAtMost(9)

\* base_risk exactly 3.0 with a positive value still gives Low
C7_Witness ==
  /\ RiskReturned
  /\ compare_base_risk(ClaimedSum, ClaimedFactor, 3) = 0
  /\ estimated_value > 0
  /\ risk_assessment[1].likelihood = "Low"

HasComplexityKeyword == any_in(complexity_keywords, upper(title))

\* C8: complexity is High if the title contains a complexity keyword (factor
\* 1.3 > 1.2), else Medium if the category risk factor exceeds 1.2, else Low,
\* whatever the value, the bidder count and the impact draw.
C8_ComplexityTier ==
  RiskReturned =>
    /\ (complexity_factor(title) > 12) <=> HasComplexityKeyword
    /\ risk_assessment[1].complexity =
         IF HasComplexityKeyword THEN "High"
         ELSE IF type_risk(contract_type) > 12 THEN "Medium"
         ELSE "Low"

\* category factor exactly 1.2 is not above 1.2
C8_Witness ==
  /\ RiskReturned
  /\ contract_type = "Construction"
  /\ ~HasComplexityKeyword
  /\ risk_assessment[1].complexity = "Low"
  /\ risk_assessment[1].likelihood = "Very High"

MediumHigh ==
  /\ RiskReturned
  /\ risk_assessment[1].likelihood = "Medium"
  /\ risk_assessment[1].impact = "High"

FactorBetween10And12 ==
  /\ type_risk(contract_type) >= 10
  /\ type_risk(contract_type) <= 12
  /\ ~HasComplexityKeyword

\* C9 as stated: likelihood Medium with impact High gives score 6, and
\* complexity Medium whenever the category factor is between 1.0 and 1.2.
C9_AsStated ==
  MediumHigh =>
    /\ risk_assessment[1].score = 6
    /\ FactorBetween10And12 => risk_assessment[1].complexity = "Medium"

\* C9 amended: likelihood Medium with impact High gives score 6, and with a
\* category factor between 1.0 and 1.2 and no complexity keyword the
\* complexity is Low; it is Medium only for a factor above 1.2.
C9_ScoreSixComplexityLow ==
  MediumHigh =>
    /\ risk_assessment[1].score = 6
    /\ FactorBetween10And12 => risk_assessment[1].complexity = "Low"
    /\ (risk_assessment[1].complexity = "Medium") =>
         type_risk(contract_type) > 12

C9_Witness ==
  /\ MediumHigh
  /\ FactorBetween10And12
  /\ contract_type = "Ammunition"
  /\ risk_assessment[1].score = 6

\* the impact tiers the claim allows for a likelihood tier
ClaimedImpacts(likelihood) ==
  IF likelihood = "Low" THEN {"Low", "Medium"}
  ELSE IF likelihood = "Medium" THEN {"Medium", "High"}
  ELSE IF likelihood \in {"High", "Very High"} THEN {"High", "Very High"}
  ELSE {}

\* C16: the impact tier is conditioned on the likelihood tier: Low or Medium
\* for likelihood Low, Medium or High for Medium, High or Very High for High
\* and for Very High; no other (likelihood, impact) pair is returned.
C16_ImpactFollowsLikelihood ==
  RiskReturned =>
    risk_assessment[1].impact \in ClaimedImpacts(risk_assessment[1].likelihood)

\* likelihood Medium with the second outcome of the draw, High
C16_Witness ==
  /\ RiskReturned
  /\ risk_assessment[1].likelihood = "Medium"
  /\ risk_assessment[1].impact = "High"

\* the likelihood rank for the title and category of the call in progress
LikelihoodRank(value, bidders) ==
  Rank(assess_contract_risk(title, contract_type, value, bidders, 1).likelihood)

\* C24: with the title and category held fixed, the likelihood rank never
\* increases when the bidder count increases (over 0..10 and beyond) and
\* never decreases when the estimated value increases.
C24_LikelihoodMonotone ==
  RiskReturned =>
    /\ Rank(risk_assessment[1].likelihood) = LikelihoodRank(estimated_value, bidder_count)
    /\ \A more \in bidder_count..MaxBidderCount :
         LikelihoodRank(estimated_value, more) <= Rank(risk_assessment[1].likelihood)
    /\ \A higher \in {v \in RiskValues : v >= estimated_value} :
         LikelihoodRank(higher, bidder_count) >= Rank(risk_assessment[1].likelihood)

\* a result whose rank drops with more bidders and rises with a higher value
C24_Witness ==
  /\ RiskReturned
  /\ \E more \in bidder_count..MaxBidderCount :
       LikelihoodRank(estimated_value, more) < Rank(risk_assessment[1].likelihood)
  /\ \E higher \in {v \in RiskValues : v >= estimated_value} :
       LikelihoodRank(higher, bidder_count) > Rank(risk_assessment[1].likelihood)

ClaimedScores == {1, 2, 4, 6, 9, 12, 16}

\* the likelihood tier the claim reads off a score below 12
ClaimedTierOf(score) ==
  IF score \in {1, 2} THEN "Low" ELSE IF score \in {4, 6} THEN "Medium" ELSE "High"

\* the scores of all assessments over the inputs of SpecRisk and both draws
ProducedScores ==
  {assess_contract_risk(t, ctype, value, bidders, draw).score :
     t \in RiskTitles, ctype \in {"Defense_Systems", "Logistics_Support"},
     value \in RiskValues, bidders \in {0, 2, MaxBidderCount}, draw \in 1..2}

\* C22: in every result the impact rank is at least the likelihood rank
\* unless the likelihood is Very High; the scores produced are exactly
\* 1, 2, 4, 6, 9, 12 and 16 (never 3 or 8), and a score below 12 determines
\* the likelihood tier.
C22_ReachableScores ==
  /\ ProducedScores = ClaimedScores
  /\ RiskReturned =>
       /\ \/ Rank(risk_assessment[1].impact) >= Rank(risk_assessment[1].likelihood)
          \/ risk_assessment[1].likelihood = "Very High"
       /\ risk_assessment[1].score \in ClaimedScores
       /\ risk_assessment[1].score < 12 =>
            risk_assessment[1].likelihood = ClaimedTierOf(risk_assessment[1].score)

\* the exception: likelihood Very High with impact High, score 12
C22_Witness ==
  /\ RiskReturned
  /\ risk_assessment[1].likelihood = "Very High"
  /\ risk_assessment[1].impact = "High"
  /\ risk_assessment[1].score = 12

(***************************************************************************)
(* categorize_contract_type followed by estimate_contract_value, as        *)
(* extract_contract_details calls them on a title                          *)
(***************************************************************************)
\* Titles are up to MaxTitleWords of TitleWords joined by blanks, plus
\* ExtraTitles.
MaxTitleWords == 2

TitleWords == {W_Satellite, W_Training, W_Fuel, W_Support, W_Radar, W_Office}

RECURSIVE WordTitles(_)
WordTitles(n) ==
  IF n = 0 THEN {<<>>}
  ELSE LET shorter == WordTitles(n - 1)
       IN  shorter \cup {IF t = <<>> THEN w ELSE t \o <<" ">> \o w :
                           t \in shorter, w \in TitleWords}

ExtraTitles ==
  {W_SIMULATOR, W_Construction, W_aircraft, W_Ammunition, W_Medical, W_Vehicle,
   W_System, W_Cyber, W_Repair, W_Groups, T_SpecExample,
   W_Medical \o <<" ">> \o W_Training}

Titles == WordTitles(MaxTitleWords) \cup ExtraTitles

\* Samples of np.random.uniform(0.7, 1.5), both ends included
Variations ==
  {VariationLow, VariationLow + 1, 8333333, VariationScale - 1, VariationScale,
   12345678, VariationHigh}

InitTitle ==
  /\ pc = "title_call"
  /\ title \in Titles
  /\ title2 = <<>> /\ contract_type = "Other" /\ variation = VariationScale
  /\ estimated_value = 0 /\ estimated_value2 = 0 /\ bidder_count = 0
  /\ risk_assessment = <<>> /\ NoRow /\ NoParse
  /\ NoOutput /\ NoBidders
  /\ NoFiles
  /\ NoDocs

CategorizeContractType ==
  /\ pc = "title_call"
  /\ contract_type' = categorize_contract_type(title)
  /\ pc' = "categorized"
  /\ UNCHANGED <<title, title2, variation, estimated_value, estimated_value2,
                 bidder_count, risk_assessment, row_vars, file_year,
                 parse_vars,
                 output, bidder_vars, files_vars, doc_vars>>

\* The category argument is any category: the function does not read it.
EstimateContractValue ==
  /\ pc = "categorized"
  /\ \E var \in Variations, ctype \in CategoryNames :
       /\ variation' = var
       /\ estimated_value' = estimate_contract_value(title, ctype, var)
  /\ pc' = "estimated"
  /\ UNCHANGED <<title, title2, contract_type, estimated_value2, bidder_count,
                 risk_assessment, row_vars, file_year,
                 parse_vars,
                 output, bidder_vars, files_vars, doc_vars>>

NextTitle == CategorizeContractType \/ EstimateContractValue

SpecTitle == InitTitle /\ [][NextTitle]_vars

(***************************************************************************)
(* Two estimate_contract_value calls under one random sample               *)
(***************************************************************************)
PairTitles ==
  {<<>>, W_Office, W_Medical, W_Training, W_Ammunition, W_Vehicle, W_Fuel,
   W_Construction, W_SIMULATOR, W_aircraft, W_Satellite,
   W_Satellite \o <<" ">> \o W_Training}

InitPair ==
  /\ pc = "pair_call"
  /\ title \in PairTitles
  /\ title2 \in PairTitles
  /\ contract_type = "Other" /\ variation = VariationScale
  /\ estimated_value = 0 /\ estimated_value2 = 0 /\ bidder_count = 0
  /\ risk_assessment = <<>> /\ NoRow /\ NoParse
  /\ NoOutput /\ NoBidders
  /\ NoFiles
  /\ NoDocs

EstimatePair ==
  /\ pc = "pair_call"
  /\ \E var \in Variations :
       /\ variation' = var
       /\ estimated_value' =
            estimate_contract_value(title, categorize_contract_type(title), var)
       /\ estimated_value2' =
            estimate_contract_value(title2, categorize_contract_type(title2), var)
  /\ pc' = "pair_estimated"
  /\ UNCHANGED <<title, title2, contract_type, bidder_count, risk_assessment, row_vars, file_year,
                 parse_vars,
                 output, bidder_vars, files_vars, doc_vars>>

NextPair == EstimatePair

SpecPair == InitPair /\ [][NextPair]_vars

(***************************************************************************)
(* Claims about categorize_contract_type and estimate_contract_value       *)
(***************************************************************************)
ClaimedOrder ==
  <<"Ammunition", "Logistics_Support", "IT_Infrastructure", "Medical_Equipment",
    "Communications", "Vehicles_Transport", "Construction", "Training",
    "Fuel_Energy", "Defense_Systems">>

\* k occurs in t, letter case ignored
OccursIgnoringCase(t, k) ==
  \E i \in 0..(Len(t) - Len(k)) :
    \A j \in 1..Len(k) : upper_char(t[i + j]) = upper_char(k[j])

\* some keyword of the i-th category occurs in the title
CategoryMatches(i) ==
  \E n \in 1..Len(categories[i].keywords) :
    OccursIgnoringCase(title, categories[i].keywords[n])

Categorized == pc \in {"categorized", "estimated"}

\* C3: the result is the first category, in the declaration order Ammunition,
\* ..., Defense_Systems, one of whose keywords occurs in the title ignoring
\* case; it is Other exactly when no keyword of any category occurs; a title
\* with keywords of exactly one category gets that category.
C3_FirstMatchingCategory ==
  Categorized =>
    /\ Len(categories) = Len(ClaimedOrder)
    /\ \A i \in 1..Len(ClaimedOrder) : categories[i].name = ClaimedOrder[i]
    /\ \A i \in 1..Len(ClaimedOrder) :
         (CategoryMatches(i) /\ \A j \in 1..(i - 1) : ~CategoryMatches(j))
           => contract_type = ClaimedOrder[i]
    /\ (contract_type = "Other") <=>
         (\A i \in 1..Len(ClaimedOrder) : ~CategoryMatches(i))
    /\ \A i \in 1..Len(ClaimedOrder) :
         (CategoryMatches(i)
            /\ \A j \in 1..Len(ClaimedOrder) : j # i => ~CategoryMatches(j))
           => contract_type = ClaimedOrder[i]

\* a mixed-case title with keywords of two categories gets the earlier one
C3_Witness ==
  /\ pc = "categorized"
  /\ title # upper(title)
  /\ \E i, j \in 1..Len(ClaimedOrder) :
       /\ i < j
       /\ CategoryMatches(i) /\ CategoryMatches(j)
       /\ \A h \in 1..(i - 1) : ~CategoryMatches(h)
       /\ contract_type = ClaimedOrder[i]

\* multipliers of the table keywords occurring in the uppercased title
MatchingMultipliers ==
  {multipliers[i].mult :
     i \in {n \in 1..Len(multipliers) : Contains(upper(title), multipliers[n].keyword)}}

ClaimedMultiplier ==
  IF MatchingMultipliers = {} THEN 1 ELSE SetMax(MatchingMultipliers)

C6_EstimateMonotone ==
  pc = "pair_estimated" =>
    (applied_multiplier(title) <= applied_multiplier(title2)
       => estimated_value <= estimated_value2)

C6_Witness ==
  /\ pc = "pair_estimated"
  /\ applied_multiplier(title) = 4
  /\ applied_multiplier(title2) = 50
  /\ estimated_value < estimated_value2
  /\ variation = VariationLow + 1

(***************************************************************************)
(* count_bidders and is_multinational_contract on one companies text, in   *)
(* the order extract_contract_details calls them                           *)
(***************************************************************************)
\* A companies text has 0..MaxLines lines.
MaxLines == 11

X_AcmeGermany == <<"A", "c", "m", "e", " ", "G", "e", "r", "m", "a", "n", "y">>

X_BoltItaly == <<"B", "o", "l", "t", " ", "I", "t", "a", "l", "y">>

X_Cie == <<"C", "i", "e">>

X_acme_germany == <<"a", "c", "m", "e", " ", "g", "e", "r", "m", "a", "n", "y">>

X_UK_USA == <<"U", "n", "i", "t", "e", "d", " ", "K", "i", "n", "g", "d", "o", "m", "/",
              "U", "S", "A">>

BidderLines == {<<>>, X_AcmeGermany, X_BoltItaly, X_Cie, X_acme_germany, X_UK_USA}

\* n lines joined by newlines: the first line, then n - 1 times the other
RECURSIVE JoinedLines(_, _, _)
JoinedLines(first, other, n) ==
  IF n = 1 THEN first ELSE JoinedLines(first, other, n - 1) \o <<"\n">> \o other

CompaniesTexts ==
  {<<>>} \cup {JoinedLines(first, other, n) :
                 first \in BidderLines, other \in BidderLines, n \in 1..MaxLines}

InitBidders ==
  /\ pc = "count_call"
  /\ companies_arg \in CompaniesTexts
  /\ is_multi_national = FALSE
  /\ NoCall /\ NoRow /\ NoParse /\ NoOutput
  /\ NoFiles
  /\ NoDocs

CountBidders ==
  /\ pc = "count_call"
  /\ bidder_count' = count_bidders(companies_arg)
  /\ pc' = "multinational_call"
  /\ UNCHANGED <<title, title2, contract_type, variation, estimated_value,
                 estimated_value2, risk_assessment, row_vars, file_year,
                 parse_vars, output, bidder_vars, files_vars, doc_vars>>

IsMultinationalContract ==
  /\ pc = "multinational_call"
  /\ is_multi_national' = is_multinational_contract(companies_arg)
  /\ pc' = "bidders_return"
  /\ UNCHANGED <<title, title2, contract_type, variation, estimated_value,
                 estimated_value2, bidder_count, risk_assessment, row_vars,
                 file_year, parse_vars, output, companies_arg, files_vars, doc_vars>>

NextBidders == CountBidders \/ IsMultinationalContract

SpecBidders == InitBidders /\ [][NextBidders]_vars

(***************************************************************************)
(* Claims about the bidder text functions                                  *)
(***************************************************************************)
BiddersReturned == pc = "bidders_return"

\* the fixed list of recognized country names
RecognizedCountries == {countries[i] : i \in 1..Len(countries)}

\* the recognized countries whose name stands somewhere in the text
CountriesNamed(text) ==
  {c \in RecognizedCountries :
     \E i \in 1..Len(text) :
       i + Len(c) - 1 <= Len(text) /\ SubSeq(text, i, i + Len(c) - 1) = c}

\* C13: the multinational flag is true exactly when more than one distinct
\* recognized country name (of the 12) appears in the bidder text; it is
\* false for an empty text and for one country named any number of times.
C13_MultinationalFlag ==
  /\ Cardinality(RecognizedCountries) = 12
  /\ BiddersReturned =>
       /\ is_multi_national = (Cardinality(CountriesNamed(companies_arg)) > 1)
       /\ companies_arg = <<>> => ~is_multi_national
       /\ Cardinality(CountriesNamed(companies_arg)) = 1 => ~is_multi_national

\* one country named on three lines: not multinational
C13_Witness ==
  /\ BiddersReturned
  /\ companies_arg = JoinedLines(X_AcmeGermany, X_AcmeGermany, 3)
  /\ ~is_multi_national

IsNewline(c) == c = "\n"

Newlines(text) == Len(SelectSeq(text, IsNewline))

\* C14: the bidder count is an integer in 0..10; it is 0 exactly when the
\* companies text is empty, and otherwise the number of newline-separated
\* lines (newlines + 1) capped at 10, never below 1.
C14_BidderCount ==
  pc \in {"multinational_call", "bidders_return"} =>
    /\ bidder_count \in 0..10
    /\ (bidder_count = 0) <=> (companies_arg = <<>>)
    /\ companies_arg # <<>> =>
         /\ bidder_count >= 1
         /\ bidder_count =
              (IF Newlines(companies_arg) + 1 > 10 THEN 10
               ELSE Newlines(companies_arg) + 1)

\* eleven lines count as ten bidders
C14_Witness ==
  /\ BiddersReturned
  /\ Newlines(companies_arg) = 10
  /\ bidder_count = 10

(***************************************************************************)
(* The row parser on one row: the guard of the row loop followed by        *)
(* extract_contract_details                                                *)
(***************************************************************************)
\* Rows have 0..MaxCells cells.
MaxCells == 5

FileYears == {2024, 2025}

\* what each column can hold; columns past the fifth are not read
ColumnCells(i) ==
  CASE i = 1 -> {NoneCell, Cell(X_NS1), Cell(X_BID)}
    [] i = 2 -> {NoneCell, Cell(<<>>), Cell(T_blank), Cell(W_Fuel), Cell(W_Training),
                 Cell(W_Radar), Cell(W_SIMULATOR),
                 Cell(T_rfp_title), Cell(T_TITLE), Cell(T_Title_colon),
                 Cell(T_bid_opening), BadCell}
    [] i = 3 -> {NoneCell, Cell(X_date), Cell(X_BID)}
    [] i = 4 -> {NoneCell, Cell(X_one), Cell(X_two), Cell(X_BID)}
    [] i = 5 -> {NoneCell, Cell(X_DE), Cell(X_BID)}
    [] OTHER -> {NoneCell, Cell(X_DE)}

RECURSIVE RowsOfLen(_)
RowsOfLen(n) ==
  IF n = 0 THEN {<<>>}
  ELSE {Append(r, c) : r \in RowsOfLen(n - 1), c \in ColumnCells(n)}

Rows == UNION {RowsOfLen(n) : n \in 0..MaxCells}

InitRow ==
  /\ pc = "row_call"
  /\ row \in Rows
  /\ file_year \in FileYears
  /\ contract_info = <<>>
  /\ NoCall /\ NoParse
  /\ NoOutput /\ NoBidders
  /\ NoFiles
  /\ NoDocs

ParseRow ==
  /\ pc = "row_call"
  /\ \E var \in Variations, draw \in 1..2 :
       contract_info' = parse_row(row, file_year, var, draw)
  /\ output' = output \o row_messages(row)
  /\ pc' = "row_done"
  /\ UNCHANGED <<title, title2, contract_type, variation, estimated_value,
                 estimated_value2, bidder_count, risk_assessment, row, file_year,
                 parse_vars, bidder_vars, files_vars, doc_vars>>

NextRow == ParseRow

SpecRow == InitRow /\ [][NextRow]_vars

(***************************************************************************)
(* Claims about the row parser                                             *)
(***************************************************************************)
RowDone == pc = "row_done"

\* the text of a cell after stripping; empty for None
CellText(c) == IF c.kind = "str" THEN strip(c.text) ELSE <<>>

NonEmptyCells(r) == Cardinality({i \in 1..Len(r) : r[i].kind = "bad" \/ CellText(r[i]) # <<>>})

TitleCellEmpty(r) == Len(r) >= 2 /\ r[2].kind # "bad" /\ CellText(r[2]) = <<>>

HeaderTitleRow(r) ==
  /\ Len(r) >= 2 /\ r[2].kind = "str"
  /\ upper(CellText(r[2])) \in
       {<<"R", "F", "P", " ", "T", "I", "T", "L", "E">>, <<"T", "I", "T", "L", "E">>}

BidOpeningIn(c) == c.kind = "str" /\ OccursIgnoringCase(c.text, BID_OPENING)

\* C4 as stated: a row whose title cell is RFP TITLE or TITLE, or that has
\* BID OPENING in any of its cells, yields no record.
C4_AsStated ==
  RowDone =>
    ((HeaderTitleRow(row) \/ \E i \in 1..Len(row) : BidOpeningIn(row[i]))
       => contract_info = <<>>)

\* C4 amended: a row whose title cell is RFP TITLE or TITLE, or whose title
\* cell contains BID OPENING (letter case ignored), yields no record; BID
\* OPENING in another cell does not reject the row.
C4_HeaderOrBidOpeningTitle ==
  RowDone =>
    ((HeaderTitleRow(row) \/ (Len(row) >= 2 /\ BidOpeningIn(row[2])))
       => contract_info = <<>>)

\* a full row with a lower-case, padded header title is rejected
C4_Witness ==
  /\ RowDone
  /\ Len(row) >= 4
  /\ NonEmptyCells(row) = Len(row)
  /\ row[2] = Cell(T_rfp_title)
  /\ contract_info = <<>>

\* a row skipped as malformed: too few cells, a missing title field, or an
\* exception during extraction; header and BID OPENING rows are not errors
MalformedRow(r) ==
  \/ Len(r) < 4
  \/ raises(r)
  \/ TitleCellEmpty(r)

\* C11: every row skipped as malformed has a message printed for it by the
\* time the row parser is done with it.
C11_MalformedRowLogged ==
  RowDone => ((MalformedRow(row) /\ contract_info = <<>>) => output # <<>>)

\* every complexity keyword is also a high-tech keyword
ComplexityKeywordsAreHighTech ==
  \A i \in 1..Len(complexity_keywords) :
    \E j \in 1..Len(high_tech) : high_tech[j] = complexity_keywords[i]

\* a title with technology level High whose complexity is not High
ConverseFailsFor(t) ==
  /\ assess_technology_level(t) = "High"
  /\ complexity_of(t, categorize_contract_type(t)) # "High"

\* C23: in every record built by extract_contract_details,
\* complexity_category = High implies technology_level = High, every
\* complexity keyword being a high-tech keyword too; the converse fails for
\* a RADAR title.
C23_ComplexityImpliesTechnology ==
  /\ ComplexityKeywordsAreHighTech
  /\ ConverseFailsFor(W_Radar)
  /\ (RowDone /\ contract_info # <<>>) =>
       (contract_info[1].complexity_category = "High" =>
          contract_info[1].technology_level = "High")

\* a record for the title SIMULATOR: complexity High, technology High
C23_Witness ==
  /\ RowDone /\ contract_info # <<>>
  /\ contract_info[1].rfp_title = W_SIMULATOR
  /\ contract_info[1].complexity_category = "High"
  /\ contract_info[1].technology_level = "High"

(***************************************************************************)
(* parse_nspa_contract_data: the loop over the tables and, per table, the  *)
(* header search and the loop over the rows after the header.  The input   *)
(* is supplied as the loops reach it: a table's length when the table is   *)
(* taken, each row when it is first read.  tables_data holds what has been *)
(* read so far.                                                            *)
(***************************************************************************)
\* A parse is handed at most MaxBatchRows rows in all.
MaxBatchRows == 4

Digits == <<"1", "2", "3", "4", "5", "6", "7", "8", "9">>

\* collective number of row r of table t
RowId(t, r) == <<Digits[t], "-", Digits[r]>>

RowShapes == {"header", "marked", "data", "empty", "short", "nondata", "bad"}

ShapedRow(shape, id) ==
  CASE shape = "header"  -> <<Cell(X_COLLECTIVE), Cell(X_RFP), Cell(X_CLOSING_NL),
                              Cell(X_COMPANIES)>>
    [] shape = "marked"  -> <<Cell(id), Cell(W_Fuel), Cell(X_date), Cell(X_COMPANIES)>>
    [] shape = "data"    -> <<Cell(id), Cell(W_Fuel), Cell(X_date), Cell(X_two)>>
    [] shape = "empty"   -> <<>>
    [] shape = "short"   -> <<Cell(id), Cell(W_Fuel), Cell(X_date)>>
    [] shape = "nondata" -> <<Cell(id), Cell(T_bid_opening), Cell(X_date), Cell(X_one)>>
    [] OTHER             -> <<Cell(id), BadCell, Cell(X_date), Cell(X_one)>>

\* the rows that can come as row r of table t
InputRows(t, r) == {ShapedRow(shape, RowId(t, r)) : shape \in RowShapes}

RECURSIVE TotalRows(_)
TotalRows(tables) ==
  IF tables = <<>> THEN 0 ELSE Len(Head(tables)) + TotalRows(Tail(tables))

\* the samples drawn while parsing a batch
BatchVariations == {VariationLow}

\* the file_year handed to a parse
BatchYears == {2024}

Init ==
  /\ pc = "for_table"
  /\ tables_data = <<>>
  /\ table_index = 0
  /\ table_len = 0
  /\ header_row = 0
  /\ row_index = 0
  /\ contracts = <<>>
  /\ file_year \in BatchYears
  /\ row = <<>> /\ contract_info = <<>>
  /\ NoCall
  /\ NoOutput /\ NoBidders
  /\ NoFiles
  /\ NoDocs

\* the next table has fewer than 2 rows: continue.  Page extraction drops
\* empty tables, so it has one row; the row is never read, and is a data row
\* here.
SkipShortTable ==
  /\ pc = "for_table"
  /\ TotalRows(tables_data) < MaxBatchRows
  /\ tables_data' =
       Append(tables_data, <<ShapedRow("data", RowId(table_index + 1, 1))>>)
  /\ table_index' = table_index + 1
  /\ table_len' = 1
  /\ header_row' = 0
  /\ UNCHANGED <<pc, title, title2, contract_type, variation, estimated_value,
                 estimated_value2, bidder_count, risk_assessment, row_vars,
                 file_year, row_index, contracts,
                 output, bidder_vars, files_vars, doc_vars>>

\* the next table has at least 2 rows: start the header search
StartTable ==
  /\ pc = "for_table"
  /\ \E n \in 2..(MaxBatchRows - TotalRows(tables_data)) : table_len' = n
  /\ tables_data' = Append(tables_data, <<>>)
  /\ table_index' = table_index + 1
  /\ header_row' = 0
  /\ row_index' = 1
  /\ pc' = "find_header"
  /\ UNCHANGED <<title, title2, contract_type, variation, estimated_value,
                 estimated_value2, bidder_count, risk_assessment, row_vars,
                 file_year, contracts,
                 output, bidder_vars, files_vars, doc_vars>>

\* one iteration of the header search: on a marker, break and start the row
\* loop after it; with no marker in the last row, continue with the next table
SearchHeader ==
  /\ pc = "find_header"
  /\ \E r \in InputRows(table_index, row_index) :
       /\ tables_data' = [tables_data EXCEPT ![table_index] = Append(@, r)]
       /\ IF row_has_header(r)
          THEN /\ header_row' = row_index
               /\ row_index' = first_data_row(row_index)
               /\ pc' = "for_row"
          ELSE IF row_index = table_len
          THEN header_row' = 0 /\ row_index' = row_index /\ pc' = "for_table"
          ELSE header_row' = 0 /\ row_index' = row_index + 1 /\ pc' = "find_header"
  /\ UNCHANGED <<title, title2, contract_type, variation, estimated_value,
                 estimated_value2, bidder_count, risk_assessment, row_vars,
                 file_year, table_index, table_len, contracts,
                 output, bidder_vars, files_vars, doc_vars>>

\* one iteration of the row loop; the row is supplied unless the header
\* search has read it already
ProcessRow ==
  /\ pc = "for_row"
  /\ row_index <= table_len
  /\ \E r \in (IF row_index <= Len(tables_data[table_index])
              THEN {tables_data[table_index][row_index]}
              ELSE InputRows(table_index, row_index)) :
       /\ tables_data' =
            IF row_index <= Len(tables_data[table_index]) THEN tables_data
            ELSE [tables_data EXCEPT ![table_index] = Append(@, r)]
       /\ \E var \in BatchVariations, draw \in 1..2 :
            contracts' = contracts \o parse_row(r, file_year, var, draw)
       /\ output' = output \o row_messages(r)
  /\ row_index' = row_index + 1
  /\ UNCHANGED <<pc, title, title2, contract_type, variation, estimated_value,
                 estimated_value2, bidder_count, risk_assessment, row_vars,
                 file_year, table_index, table_len, header_row, bidder_vars, files_vars, doc_vars>>

\* the row loop is exhausted
EndTable ==
  /\ pc = "for_row"
  /\ row_index > table_len
  /\ pc' = "for_table"
  /\ UNCHANGED <<title, title2, contract_type, variation, estimated_value,
                 estimated_value2, bidder_count, risk_assessment, row_vars,
                 file_year, parse_vars,
                 output, bidder_vars, files_vars, doc_vars>>

\* the table loop is exhausted: return contracts
ReturnContracts ==
  /\ pc = "for_table"
  /\ pc' = "returned"
  /\ UNCHANGED <<title, title2, contract_type, variation, estimated_value,
                 estimated_value2, bidder_count, risk_assessment, row_vars,
                 file_year, parse_vars,
                 output, bidder_vars, files_vars, doc_vars>>

Next ==
  \/ SkipShortTable \/ StartTable \/ SearchHeader \/ ProcessRow \/ EndTable
  \/ ReturnContracts

Spec == Init /\ [][Next]_vars

(***************************************************************************)
(* Claims about the batch                                                  *)
(***************************************************************************)
\* a row the claim calls skipped: empty, too short, not a data row, or raising
SkippedRow(r) ==
  \/ r = <<>>
  \/ Len(r) < 4
  \/ raises(r)
  \/ TitleCellEmpty(r) \/ HeaderTitleRow(r) \/ BidOpeningIn(r[2])

HasMarker(r) ==
  \E i \in 1..Len(r) :
    r[i].kind = "str" /\ any_in(header_markers, upper(r[i].text))

\* declared length of table t: of the current table while it is being read
DeclaredLen(t) ==
  IF t = table_index THEN table_len ELSE Len(tables_data[t])

\* the first row read so far of table t with a marker (0: none), for a table
\* of at least 2 rows
FirstMarkerRow(t) ==
  LET hits == {i \in 1..Len(tables_data[t]) : HasMarker(tables_data[t][i])}
  IN  IF DeclaredLen(t) < 2 \/ hits = {} THEN 0 ELSE SetMin(hits)

RECURSIVE ExpectedIds(_, _, _)
\* collective numbers of the rows from i on, read so far, of table t that
\* must have yielded a record; h is the table's first row with a marker
ExpectedIds(t, h, i) ==
  IF h = 0 \/ i > Len(tables_data[t]) THEN <<>>
  ELSE (IF i > h /\ ~SkippedRow(tables_data[t][i])
        THEN <<CellText(tables_data[t][i][1])>> ELSE <<>>)
       \o ExpectedIds(t, h, i + 1)

RECURSIVE ExpectedSoFar(_)
ExpectedSoFar(t) ==
  IF t = 0 THEN <<>>
  ELSE ExpectedSoFar(t - 1) \o ExpectedIds(t, FirstMarkerRow(t), 1)

ContractIds == [i \in 1..Len(contracts) |-> contracts[i].contract_id]

\* between two tables, the table just left has been read to its end unless
\* it was skipped whole
TableReadToEnd ==
  (pc \in {"for_table", "returned"} /\ table_index > 0)
    => Len(tables_data[table_index]) = table_len

\* C10: skipped rows contribute nothing and stop nothing: at every point of
\* the parse the records are exactly one per non-skipped row after the
\* header read so far, in table order then row order, and no table is left
\* before its last row.
C10_OneRecordPerDataRow ==
  /\ table_index = Len(tables_data)
  /\ TableReadToEnd
  /\ ContractIds = ExpectedSoFar(table_index)

\* a row whose extraction raises ends neither its table's parse nor the
\* batch: the next table yields its record
C10_Witness ==
  /\ pc = "returned"
  /\ Len(tables_data) = 2
  /\ Len(tables_data[1]) = 2 /\ raises(tables_data[1][2])
  /\ Len(tables_data[2]) = 2
  /\ ContractIds = <<RowId(2, 2)>>

\* C17: a table with fewer than 2 rows or without a header marker in any row
\* yields no record, and in every other table only rows strictly after the
\* first row containing a marker yield records: every record comes from a
\* row after the first marker row of a table of at least 2 rows.
C17_RecordsOnlyAfterHeader ==
  \A k \in 1..Len(contracts) :
    \E t \in 1..Len(tables_data) :
      /\ DeclaredLen(t) >= 2
      /\ \E h \in 1..Len(tables_data[t]) :
           /\ HasMarker(tables_data[t][h])
           /\ \A i \in 1..(h - 1) : ~HasMarker(tables_data[t][i])
           /\ \E r \in (h + 1)..Len(tables_data[t]) :
                contracts[k].contract_id = RowId(t, r)

\* a one-row table, then a table whose header row looks like a data row:
\* only the row after it becomes a record
C17_Witness ==
  /\ pc = "returned"
  /\ Len(tables_data) = 2
  /\ Len(tables_data[1]) = 1
  /\ tables_data[2] = <<ShapedRow("marked", RowId(2, 1)), ShapedRow("data", RowId(2, 2))>>
  /\ ContractIds = <<RowId(2, 2)>>

(***************************************************************************)
(* process_all_pdfs over an existing folder, file by file and page by      *)
(* page, followed by main's save step.  folders[c] is the folder as call c *)
(* lists and reads it: the listing when the call starts, each page when it *)
(* is extracted.  The page text is accumulated by the source but read by   *)
(* nothing, and is left out.                                               *)
(***************************************************************************)
\* All calls together list at most MaxFiles entries and read at most
\* MaxPages pages; there are at most MaxCalls calls.
MaxFiles == 2
MaxPages == 2
MaxCalls == 2

N_BIDS == <<"B", "I", "D", "S", ".", "P", "D", "F">>

N_notes == <<"n", "o", "t", "e", "s", "2", "0", "2", "4", ".", "t", "x", "t">>

N_v20 == <<"v", "2", "0", "_", "2", "0", "1", "9", ".", "p", "d", "f">>

FileNames == {N_v20, N_BIDS, N_notes}

SeqRange(q) == {q[i] : i \in 1..Len(q)}

RECURSIVE ListingsOfLen(_)
\* os.listdir results with n names, all different
ListingsOfLen(n) ==
  IF n = 0 THEN {<<>>}
  ELSE UNION {{Append(l, f) : f \in FileNames \ SeqRange(l)} :
                l \in ListingsOfLen(n - 1)}

RECURSIVE TotalFiles(_)
TotalFiles(fs) == IF fs = <<>> THEN 0 ELSE Len(Head(fs)) + TotalFiles(Tail(fs))

RECURSIVE FolderPages(_)
FolderPages(folder) ==
  IF folder = <<>> THEN 0 ELSE Len(Head(folder).pages) + FolderPages(Tail(folder))

RECURSIVE TotalPages(_)
TotalPages(fs) == IF fs = <<>> THEN 0 ELSE FolderPages(Head(fs)) + TotalPages(Tail(fs))

\* collective number of the data row on page p of entry f of call c's folder
FileRowId(c, f, p) == <<Digits[c], "-", Digits[f], "-", Digits[p]>>

PageShapes == {"good", "poor"}

\* page.extract_tables(): a table with a header and a data row, or an empty
\* table followed by a table of one row
PageOf(shape, id) ==
  IF shape = "good"
  THEN <<<<ShapedRow("header", id), ShapedRow("data", id)>>>>
  ELSE <<<<>>, <<ShapedRow("data", id)>>>>

\* the entry of the current folder that pdf_files[file_index] names
CurrentEntry ==
  CHOOSE e \in 1..Len(folders[Len(folders)]) :
    folders[Len(folders)][e].name = pdf_files[file_index]

InitFiles ==
  /\ pc = "idle"
  /\ NoFiles
  /\ NoCall /\ NoRow /\ NoParse /\ NoOutput /\ NoBidders
  /\ NoDocs

\* process_all_pdfs up to the file loop
CallProcessAllPdfs ==
  /\ pc \in {"idle", "pdfs_returned"}
  /\ Len(folders) < MaxCalls
  /\ \E n \in 0..(MaxFiles - TotalFiles(folders)) :
       \E names \in ListingsOfLen(n) :
         /\ folders' = Append(folders,
                         [i \in 1..n |->
                            [name |-> names[i], pages |-> <<>>, unreadable |-> FALSE]])
         /\ pdf_files' = SelectSeq(names, is_pdf_file)
  /\ all_contracts' = <<>>
  /\ file_index' = 1
  /\ output' = Append(output, <<"Processing NSPA PDF Files">>)
  /\ pc' = "for_pdf"
  /\ UNCHANGED <<title, title2, contract_type, variation, estimated_value,
                 estimated_value2, bidder_count, risk_assessment, row_vars,
                 file_year, parse_vars, bidder_vars, processed_contracts, written, doc_vars>>

\* the next file: its year, and pdfplumber.open succeeds
OpenPdf ==
  /\ pc = "for_pdf"
  /\ file_index <= Len(pdf_files)
  /\ file_year' = file_year_of(pdf_files[file_index])
  /\ tables_data' = <<>>
  /\ output' = Append(output, <<"Processing", pdf_files[file_index]>>)
  /\ pc' = "read_page"
  /\ UNCHANGED <<title, title2, contract_type, variation, estimated_value,
                 estimated_value2, bidder_count, risk_assessment, row_vars,
                 table_index, table_len, header_row, row_index, contracts,
                 bidder_vars, files_vars, doc_vars>>

\* the next file: its year, and pdfplumber.open raises
OpenFails ==
  /\ pc = "for_pdf"
  /\ file_index <= Len(pdf_files)
  /\ file_year' = file_year_of(pdf_files[file_index])
  /\ folders' = [folders EXCEPT ![Len(folders)][CurrentEntry].unreadable = TRUE]
  /\ tables_data' = except_result(<<>>)
  /\ output' = output \o <<<<"Processing", pdf_files[file_index]>>,
                           <<"Error processing", pdf_files[file_index]>>>>
  /\ pc' = "parse"
  /\ UNCHANGED <<title, title2, contract_type, variation, estimated_value,
                 estimated_value2, bidder_count, risk_assessment, row_vars,
                 table_index, table_len, header_row, row_index, contracts,
                 bidder_vars, pdf_files, file_index, all_contracts,
                 processed_contracts, written, doc_vars>>

\* one page: its non-empty tables are appended
ReadPage ==
  /\ pc = "read_page"
  /\ TotalPages(folders) < MaxPages
  /\ \E shape \in PageShapes :
       LET c    == Len(folders)
           e    == CurrentEntry
           page == PageOf(shape, FileRowId(c, e, Len(folders[c][e].pages) + 1))
       IN  /\ folders' = [folders EXCEPT ![c][e].pages = Append(@, page)]
           /\ tables_data' = tables_data \o SelectSeq(page, nonempty_table)
  /\ UNCHANGED <<pc, title, title2, contract_type, variation, estimated_value,
                 estimated_value2, bidder_count, risk_assessment, row_vars,
                 file_year, table_index, table_len, header_row, row_index,
                 contracts, output, bidder_vars, pdf_files, file_index,
                 all_contracts, processed_contracts, written, doc_vars>>

\* extracting the next page raises: the except branch returns
ReadPageFails ==
  /\ pc = "read_page"
  /\ folders' = [folders EXCEPT ![Len(folders)][CurrentEntry].unreadable = TRUE]
  /\ tables_data' = except_result(tables_data)
  /\ output' = Append(output, <<"Error processing", pdf_files[file_index]>>)
  /\ pc' = "parse"
  /\ UNCHANGED <<title, title2, contract_type, variation, estimated_value,
                 estimated_value2, bidder_count, risk_assessment, row_vars,
                 file_year, table_index, table_len, header_row, row_index,
                 contracts, bidder_vars, pdf_files, file_index, all_contracts,
                 processed_contracts, written, doc_vars>>

\* no page is left: return text_content, tables_data
ReturnTables ==
  /\ pc = "read_page"
  /\ pc' = "parse"
  /\ UNCHANGED <<title, title2, contract_type, variation, estimated_value,
                 estimated_value2, bidder_count, risk_assessment, row_vars,
                 file_year, parse_vars, output, bidder_vars, files_vars, doc_vars>>

\* the rest of the loop body: parse the tables and extend all_contracts
ParsePdf ==
  /\ pc = "parse"
  /\ \E var \in BatchVariations, draws \in [1..Len(tables_data) -> 1..2] :
       /\ contracts' = parse_nspa_contract_data(tables_data, file_year, var, draws)
       /\ all_contracts' = all_contracts \o contracts'
       /\ output' = Append(output,
                           <<"Extracted", Len(contracts'), pdf_files[file_index]>>)
  /\ file_index' = file_index + 1
  /\ pc' = "for_pdf"
  /\ UNCHANGED <<title, title2, contract_type, variation, estimated_value,
                 estimated_value2, bidder_count, risk_assessment, row_vars,
                 file_year, tables_data, table_index, table_len, header_row,
                 row_index, bidder_vars, folders, pdf_files,
                 processed_contracts, written, doc_vars>>

\* the file loop is exhausted: assign and return all_contracts
ReturnAllContracts ==
  /\ pc = "for_pdf"
  /\ file_index > Len(pdf_files)
  /\ processed_contracts' = assigned_contracts(processed_contracts, all_contracts)
  /\ output' = Append(output, <<"Total contracts extracted", Len(all_contracts)>>)
  /\ pc' = "pdfs_returned"
  /\ UNCHANGED <<title, title2, contract_type, variation, estimated_value,
                 estimated_value2, bidder_count, risk_assessment, row_vars,
                 file_year, parse_vars, bidder_vars, folders, pdf_files,
                 file_index, all_contracts, written, doc_vars>>

\* main after the call: `if contracts:` save_results()
MainSaveResults ==
  /\ pc = "pdfs_returned"
  /\ all_contracts # <<>>
  /\ written' = written \o save_results(processed_contracts).files
  /\ output' = output \o save_results(processed_contracts).printed
                      \o <<<<"Ready for Azure ML Studio">>>>
  /\ pc' = "main_done"
  /\ UNCHANGED <<title, title2, contract_type, variation, estimated_value,
                 estimated_value2, bidder_count, risk_assessment, row_vars,
                 file_year, parse_vars, bidder_vars, folders, pdf_files,
                 file_index, all_contracts, processed_contracts, doc_vars>>

\* main after the call: the else branch
MainNoContracts ==
  /\ pc = "pdfs_returned"
  /\ all_contracts = <<>>
  /\ output' = Append(output, <<"No contracts extracted">>)
  /\ pc' = "main_done"
  /\ UNCHANGED <<title, title2, contract_type, variation, estimated_value,
                 estimated_value2, bidder_count, risk_assessment, row_vars,
                 file_year, parse_vars, bidder_vars, files_vars, doc_vars>>

NextFiles ==
  \/ CallProcessAllPdfs \/ OpenPdf \/ OpenFails \/ ReadPage \/ ReadPageFails
  \/ ReturnTables \/ ParsePdf \/ ReturnAllContracts
  \/ MainSaveResults \/ MainNoContracts

SpecFiles == InitFiles /\ [][NextFiles]_vars

(***************************************************************************)
(* Claims about process_all_pdfs and main                                  *)
(***************************************************************************)
\* the folder of the call in progress or last made
Folder == folders[Len(folders)]

IdsOf(list) == [k \in 1..Len(list) |-> list[k].contract_id]

\* the sample names that are PDF files, and the year each name states
ClaimedPdf(name) == name \in {N_BIDS, N_v20}

ClaimedYear(name) ==
  IF name = N_v20 THEN 2019
  ELSE IF name = N_notes THEN 2024
  ELSE 2025

\* the ids a file can give its records
FileIds(c, e) == {FileRowId(c, e, p) : p \in 1..(MaxPages + 1)}

\* a page with a table of a header row and a data row
GoodPage(page) ==
  \E t \in 1..Len(page) :
    /\ Len(page[t]) = 2
    /\ HasMarker(page[t][1])
    /\ ~SkippedRow(page[t][2])

RECURSIVE GoodPageIds(_, _, _)
\* ids of the data rows of the good pages of entry e from page p on
GoodPageIds(c, e, p) ==
  IF p > Len(folders[c][e].pages) THEN <<>>
  ELSE (IF GoodPage(folders[c][e].pages[p]) THEN <<FileRowId(c, e, p)>> ELSE <<>>)
       \o GoodPageIds(c, e, p + 1)

\* the ids of the records entry e of call c's folder stands for: none when
\* it is no PDF or could not be read
ExpectedFileIds(c, e) ==
  IF ~ClaimedPdf(folders[c][e].name) \/ folders[c][e].unreadable THEN <<>>
  ELSE GoodPageIds(c, e, 1)

RECURSIVE ExpectedCallIds(_, _)
ExpectedCallIds(c, e) ==
  IF e > Len(folders[c]) THEN <<>>
  ELSE ExpectedFileIds(c, e) \o ExpectedCallIds(c, e + 1)

\* C12: an unreadable PDF is reported and contributes no record, whatever
\* was read of it before the failure, and the call still processes every
\* other PDF of the folder and returns their records.
C12_UnreadableFileOnly ==
  folders # <<>> =>
    /\ \A e \in 1..Len(Folder) :
         Folder[e].unreadable =>
           /\ <<"Error processing", Folder[e].name>> \in SeqRange(output)
           /\ SeqRange(IdsOf(all_contracts)) \cap FileIds(Len(folders), e) = {}
    /\ pc = "pdfs_returned" =>
         \A e \in 1..Len(Folder) :
           (ClaimedPdf(Folder[e].name) /\ ~Folder[e].unreadable) =>
             /\ <<"Processing", Folder[e].name>> \in SeqRange(output)
             /\ SeqRange(GoodPageIds(Len(folders), e, 1))
                  \subseteq SeqRange(IdsOf(all_contracts))

\* the first file fails after a good page, the second file is read: only the
\* second file's record is returned
C12_Witness ==
  /\ pc = "pdfs_returned"
  /\ Len(folders) = 1 /\ Len(Folder) = 2
  /\ Folder[1].unreadable /\ Len(Folder[1].pages) = 1 /\ GoodPage(Folder[1].pages[1])
  /\ ~Folder[2].unreadable
  /\ IdsOf(all_contracts) = <<FileRowId(1, 2, 1)>>

ThreeOutputFiles ==
  <<<<"nspa_real_data", "nspa_contracts_raw.csv">>,
    <<"nspa_real_data", "nspa_ml_training_data.csv">>,
    <<"nspa_real_data", "nspa_analysis_summary.json">>>>

EveryPdfProcessed ==
  /\ file_index = Len(pdf_files) + 1
  /\ \A e \in 1..Len(Folder) :
       ClaimedPdf(Folder[e].name) =>
         \E n \in 0..MaxPages : <<"Extracted", n, Folder[e].name>> \in SeqRange(output)

\* C15 as stated: the invocation processes every PDF of the folder and then
\* writes the three output files.
C15_AsStated ==
  pc = "main_done" => (EveryPdfProcessed /\ written = ThreeOutputFiles)

\* C15 amended: the invocation processes every PDF of the folder and then,
\* when at least one record was extracted, writes the raw CSV, the training
\* CSV and the JSON summary, in this order; with no record it writes no file.
\* Nothing is written before the processing is over.
C15_ThreeFilesWhenRecords ==
  /\ pc # "main_done" => written = <<>>
  /\ pc = "main_done" =>
       /\ EveryPdfProcessed
       /\ processed_contracts # <<>> => written = ThreeOutputFiles
       /\ processed_contracts = <<>> => written = <<>>

\* a folder with a PDF and another file: one record, three files
C15_Witness ==
  /\ pc = "main_done"
  /\ Len(Folder) = 2
  /\ ~ClaimedPdf(Folder[1].name) /\ ClaimedPdf(Folder[2].name)
  /\ Len(processed_contracts) = 1
  /\ written = ThreeOutputFiles

\* the entry of the current folder a record's id names
EntryOf(id) ==
  CHOOSE e \in 1..Len(Folder) : id \in FileIds(Len(folders), e)

\* C18: process_all_pdfs returns the concatenation, in listing order, of the
\* record lists of the PDFs and assigns exactly that list to
\* processed_contracts, which therefore holds the records of the last call
\* only; each record carries the year its file's name states, 2025 when the
\* name has no 20xx.
C18_ReturnsConcatenation ==
  pc = "pdfs_returned" =>
    /\ processed_contracts = all_contracts
    /\ IdsOf(all_contracts) = ExpectedCallIds(Len(folders), 1)
    /\ \A k \in 1..Len(all_contracts) :
         all_contracts[k].year = ClaimedYear(Folder[EntryOf(all_contracts[k].contract_id)].name)

\* a second call over a folder with one PDF without a year in its name,
\* after a first call that returned a record
C18_Witness ==
  /\ pc = "pdfs_returned"
  /\ Len(folders) = 2
  /\ ExpectedCallIds(1, 1) # <<>>
  /\ Len(Folder) = 1
  /\ Folder[1].name = N_BIDS
  /\ Len(processed_contracts) = 1
  /\ processed_contracts[1].year = 2025
  /\ processed_contracts[1].contract_id = FileRowId(2, 1, 1)

(***************************************************************************)
(* nato_document_processor.py: classify_document_risk.  A document is a    *)
(* dict, modelled as a function on its keys.                               *)
(***************************************************************************)
\* dict.get(key, default)
get(d, key, default) == IF key \in DOMAIN d THEN d[key] ELSE default

\* value_points with the limits read as "at least"
value_points_inclusive(value) ==
  IF value >= 2000000 THEN 3 ELSE IF value >= 1000000 THEN 2 ELSE 1

\* the value-based part of risk_score
value_points(value) ==
  IF value > 2000000 THEN 3 ELSE IF value > 1000000 THEN 2 ELSE 1

\* str.split()[0] of a text with a non-blank character
first_token(s) ==
  LET start == SetMin({i \in 1..Len(s) : ~IsSpace(s[i])})
      stop  == SetMin({j \in start..Len(s) : j = Len(s) \/ IsSpace(s[j + 1])})
  IN  SubSeq(s, start, stop)

\* str.isdigit()
isdigit(s) == s # <<>> /\ \A i \in 1..Len(s) : is_digit(s[i])

RECURSIVE int_of(_)
\* int(s) of a digit string
int_of(s) ==
  IF s = <<>> THEN 0
  ELSE 10 * int_of(SubSeq(s, 1, Len(s) - 1)) + digit_value(s[Len(s)])

T_month == <<"m", "o", "n", "t", "h">>

T_0_months == <<"0", " ", "m", "o", "n", "t", "h", "s">>

\* the duration-based part of risk_score
duration_points(duration) ==
  IF Contains(duration, T_month)
  THEN LET months == IF isdigit(first_token(duration))
                     THEN int_of(first_token(duration)) ELSE 12
       IN  IF months > 24 THEN 2 ELSE IF months > 12 THEN 1 ELSE 0
  ELSE 0

T_URGENT == <<"U", "R", "G", "E", "N", "T">>

T_HIGH == <<"H", "I", "G", "H">>

\* the priority-based part of risk_score
priority_points(strategic_priority) ==
  IF upper(strategic_priority) = T_URGENT THEN 3
  ELSE IF upper(strategic_priority) = T_HIGH THEN 2
  ELSE 0

\* the local risk_score before the classification logic
document_risk_score(d) ==
  value_points(get(d, "value", 0))
    + duration_points(get(d, "duration", T_0_months))
    + priority_points(get(d, "strategic_priority", <<>>))

\* the local risk_score and the returned label
classify_document_risk(d) ==
  [risk_score |-> document_risk_score(d),
   label      |-> IF document_risk_score(d) >= 6 THEN "HIGH_RISK"
                  ELSE IF document_risk_score(d) >= 4 THEN "MEDIUM_RISK"
                  ELSE "LOW_RISK"]

(***************************************************************************)
(* classify_document_risk as an operation                                  *)
(***************************************************************************)
\* Durations state 0..MaxMonths months.
MaxMonths == 30

RECURSIVE decimal(_)
\* str(n) for n >= 0
decimal(n) ==
  IF n < 10 THEN <<DecimalDigits[n + 1]>>
  ELSE decimal(n \div 10) \o <<DecimalDigits[(n % 10) + 1]>>

T__months == <<" ", "m", "o", "n", "t", "h", "s">>

\* f"{n} months"
MonthsText(n) == decimal(n) \o T__months

T_1_month == <<"1", " ", "m", "o", "n", "t", "h">>

T_Not_specified == <<"N", "o", "t", " ", "s", "p", "e", "c", "i", "f", "i",
                     "e", "d">>

T_urgent == <<"u", "r", "g", "e", "n", "t">>

T_High == <<"H", "i", "g", "h">>

T_LOW == <<"L", "O", "W">>

DocumentValues == {980000, 1000000, 1000001, 1850000, 2000000, 2000001, 3250000}

DocumentDurations == {MonthsText(n) : n \in 0..MaxMonths} \cup {T_1_month, T_Not_specified}

DocumentPriorities == {T_URGENT, T_urgent, T_HIGH, T_High, T_LOW, <<>>}

\* the dicts with the given keys among value, duration, strategic_priority
DocumentDicts(keys) ==
  {[k \in keys |-> IF k = "value" THEN v ELSE IF k = "duration" THEN d ELSE p] :
     v \in DocumentValues, d \in DocumentDurations, p \in DocumentPriorities}

InitClassify ==
  /\ pc = "classify_call"
  /\ document_data \in UNION {DocumentDicts(keys) :
                                keys \in SUBSET {"value", "duration", "strategic_priority"}}
  /\ risk_classification = ""
  /\ documents = <<>> /\ processed_documents = <<>>
  /\ dashboard = <<>> /\ summary_report = <<>>
  /\ NoRequirements
  /\ NoCall /\ NoRow /\ NoParse /\ NoOutput /\ NoBidders /\ NoFiles

ClassifyDocumentRisk ==
  /\ pc = "classify_call"
  /\ risk_classification' = classify_document_risk(document_data)
  /\ pc' = "classify_return"
  /\ UNCHANGED <<title, title2, contract_type, variation, estimated_value,
                 estimated_value2, bidder_count, risk_assessment, row_vars,
                 file_year, parse_vars, output, bidder_vars, files_vars,
                 document_data, documents, processed_documents, dashboard,
                 summary_report, content_arg, requirements_out>>

NextClassify == ClassifyDocumentRisk

SpecClassify == InitClassify /\ [][NextClassify]_vars

(***************************************************************************)
(* Claims about classify_document_risk                                     *)
(***************************************************************************)
\* the value the document states, 0 when it states none
ClaimedValue == IF "value" \in DOMAIN document_data THEN document_data.value ELSE 0

\* the months the document's duration states: 0 when the duration is
\* missing or states no number of months
ClaimedMonths ==
  IF "duration" \notin DOMAIN document_data THEN 0
  ELSE IF \E n \in 0..MaxMonths : document_data.duration = MonthsText(n)
  THEN CHOOSE n \in 0..MaxMonths : document_data.duration = MonthsText(n)
  ELSE IF document_data.duration = T_1_month THEN 1
  ELSE 0

\* the document's priority is the given one, letter case ignored
ClaimedPriority(p) ==
  /\ "strategic_priority" \in DOMAIN document_data
  /\ upper(document_data.strategic_priority) = p

ClaimedScore ==
  (IF ClaimedValue > 2000000 THEN 3 ELSE IF ClaimedValue > 1000000 THEN 2 ELSE 1)
  + (IF ClaimedMonths > 24 THEN 2 ELSE IF ClaimedMonths > 12 THEN 1 ELSE 0)
  + (IF ClaimedPriority(T_URGENT) THEN 3 ELSE IF ClaimedPriority(T_HIGH) THEN 2 ELSE 0)

\* C19: the label is HIGH_RISK exactly when the score is at least 6,
\* MEDIUM_RISK exactly when it is 4 or 5 and LOW_RISK otherwise, the score
\* being the sum of the value points (3 above 2,000,000, 2 above 1,000,000,
\* else 1), the duration points (2 above 24 months, 1 above 12, else 0, a
\* missing duration counting as 0 months) and the priority points (3 for
\* URGENT, 2 for HIGH, else 0); the score is between 1 and 8.
C19_RiskLabelFromScore ==
  pc = "classify_return" =>
    /\ risk_classification.risk_score = ClaimedScore
    /\ ClaimedScore \in 1..8
    /\ (risk_classification.label = "HIGH_RISK") <=> (ClaimedScore >= 6)
    /\ (risk_classification.label = "MEDIUM_RISK") <=> (ClaimedScore \in {4, 5})
    /\ (risk_classification.label = "LOW_RISK") <=> (ClaimedScore < 4)

\* exactly 2,000,000 for 25 months with priority high in lower case:
\* 2 + 2 + 2 points, HIGH_RISK
C19_Witness ==
  /\ pc = "classify_return"
  /\ DOMAIN document_data = {"value", "duration", "strategic_priority"}
  /\ document_data.value = 2000000
  /\ document_data.duration = MonthsText(25)
  /\ document_data.strategic_priority = T_High
  /\ risk_classification = [risk_score |-> 6, label |-> "HIGH_RISK"]

(***************************************************************************)
(* nato_document_processor.py: the helper methods of the structure         *)
(* extraction.  The element "euro" of a text stands for the euro sign.     *)
(***************************************************************************)
\* k stands in text at position i
MatchAt(text, i, k) ==
  i + Len(k) - 1 <= Len(text) /\ SubSeq(text, i, i + Len(k) - 1) = k

\* the last position of the longest run from i of characters of the class,
\* i - 1 for an empty run
RunEnd(text, i, class) ==
  SetMax({j \in (i - 1)..Len(text) : \A x \in i..j : text[x] \in class})

\* \d
DigitChars == {DecimalDigits[d] : d \in 1..Len(DecimalDigits)}

\* [\d,]
AmountChars == DigitChars \cup {","}

\* [A-Z-]
LevelChars == {UpperAlphabet[i] : i \in 1..Len(UpperAlphabet)} \cup {"-"}

\* re.search of prefix([\d,]+): <<>> without a match, else <<group(1)>>
search_amount(content, prefix) ==
  LET hits == {i \in 1..Len(content) :
                 /\ MatchAt(content, i, prefix)
                 /\ i + Len(prefix) <= Len(content)
                 /\ content[i + Len(prefix)] \in AmountChars}
  IN  IF hits = {} THEN <<>>
      ELSE LET from == SetMin(hits) + Len(prefix)
           IN  <<SubSeq(content, from, RunEnd(content, from, AmountChars))>>

P_Contract_Value == <<"C", "o", "n", "t", "r", "a", "c", "t", " ", "V", "a",
                      "l", "u", "e", ":", " ", "euro">>

P_Estimated_Value == <<"E", "s", "t", "i", "m", "a", "t", "e", "d", " ", "V",
                       "a", "l", "u", "e", ":", " ", "euro">>

P_Value == <<"V", "a", "l", "u", "e", ":", " ", "euro">>

V_Not_specified == <<"N", "o", "t", " ", "s", "p", "e", "c", "i", "f", "i",
                     "e", "d">>

extract_contract_value(content) ==
  IF search_amount(content, P_Contract_Value) # <<>>
  THEN search_amount(content, P_Contract_Value)[1]
  ELSE IF search_amount(content, P_Estimated_Value) # <<>>
  THEN search_amount(content, P_Estimated_Value)[1]
  ELSE IF search_amount(content, P_Value) # <<>>
  THEN search_amount(content, P_Value)[1]
  ELSE V_Not_specified

\* re.search of prefix(\d+ months): <<>> without a match, else <<group(1)>>
search_months(content, prefix) ==
  LET hits == {i \in 1..Len(content) :
                 /\ MatchAt(content, i, prefix)
                 /\ i + Len(prefix) <= Len(content)
                 /\ is_digit(content[i + Len(prefix)])
                 /\ MatchAt(content,
                            RunEnd(content, i + Len(prefix), DigitChars) + 1, T__months)}
  IN  IF hits = {} THEN <<>>
      ELSE LET from == SetMin(hits) + Len(prefix)
           IN  <<SubSeq(content, from,
                        RunEnd(content, from, DigitChars) + Len(T__months))>>

P_Duration == <<"D", "u", "r", "a", "t", "i", "o", "n", ":", " ">>

P_Timeline == <<"T", "i", "m", "e", "l", "i", "n", "e", ":", " ">>

extract_duration(content) ==
  IF search_months(content, P_Duration) # <<>>
  THEN search_months(content, P_Duration)[1]
  ELSE IF search_months(content, P_Timeline) # <<>>
  THEN search_months(content, P_Timeline)[1]
  ELSE V_Not_specified

P_Risk == <<"R", "i", "s", "k">>

\* where `: ([A-Z-]+)` can follow `Risk.*?` started at i: the colons of the
\* same line that a space and a level character follow
risk_colons(content, i) ==
  {j \in (i + Len(P_Risk))..(Len(content) - 2) :
     /\ \A x \in (i + Len(P_Risk))..(j - 1) : content[x] # "\n"
     /\ content[j] = ":" /\ content[j + 1] = " "
     /\ content[j + 2] \in LevelChars}

\* re.search(r'Risk.*?: ([A-Z-]+)', content)
extract_risk_level(content) ==
  LET hits == {i \in 1..Len(content) :
                 MatchAt(content, i, P_Risk) /\ risk_colons(content, i) # {}}
  IN  IF hits = {} THEN V_Not_specified
      ELSE LET from == SetMin(risk_colons(content, SetMin(hits))) + 2
           IN  SubSeq(content, from, RunEnd(content, from, LevelChars))

P_NATO_UNCLASSIFIED == <<"N", "A", "T", "O", " ", "U", "N", "C", "L", "A",
                         "S", "S", "I", "F", "I", "E", "D">>

P_NATO_SECRET == <<"N", "A", "T", "O", " ", "S", "E", "C", "R", "E", "T">>

extract_classification(content) ==
  IF Contains(content, P_NATO_UNCLASSIFIED) THEN "UNCLASSIFIED"
  ELSE IF Contains(content, P_NATO_SECRET) THEN "SECRET"
  ELSE "Unknown"

\* content.split('\n')
split_lines(content) ==
  LET breaks == {i \in 1..Len(content) : content[i] = "\n"}
      \* the k-th line break, 0 before the first, Len + 1 after the last
      at(k)  == IF k = 0 THEN 0
                ELSE IF k > Cardinality(breaks) THEN Len(content) + 1
                ELSE CHOOSE p \in breaks : Cardinality({q \in breaks : q <= p}) = k
  IN  [k \in 1..(Cardinality(breaks) + 1) |->
         SubSeq(content, at(k - 1) + 1, at(k) - 1)]

P_Requirements == <<"R", "e", "q", "u", "i", "r", "e", "m", "e", "n", "t",
                    "s", ":">>

P_Key_Requirements == <<"K", "e", "y", " ", "R", "e", "q", "u", "i", "r", "e",
                        "m", "e", "n", "t", "s", ":">>

\* str.startswith for a one-character prefix
starts_with_char(s, c) == s # <<>> /\ s[1] = c

RECURSIVE scan_requirements(_, _, _, _)
\* the loop over the lines from line k on
scan_requirements(lines, k, in_requirements, requirements) ==
  IF k > Len(lines) THEN requirements
  ELSE IF Contains(lines[k], P_Requirements) \/ Contains(lines[k], P_Key_Requirements)
  THEN scan_requirements(lines, k + 1, TRUE, requirements)
  ELSE IF in_requirements /\ starts_with_char(strip(lines[k]), "-")
  THEN scan_requirements(lines, k + 1, in_requirements,
                         Append(requirements, strip(Tail(strip(lines[k])))))
  ELSE IF in_requirements /\ strip(lines[k]) = <<>>
  THEN requirements
  ELSE scan_requirements(lines, k + 1, in_requirements, requirements)

\* requirements[:5]
extract_requirements(content) ==
  LET requirements == scan_requirements(split_lines(content), 1, FALSE, <<>>)
  IN  SubSeq(requirements, 1, Min2(5, Len(requirements)))

\* <<>> for None, else <<extracted_data>>; content is a str or None, and
\* re.search on None raises inside the try
analyze_document_structure(content) ==
  IF content.kind # "str" THEN <<>>
  ELSE <<[contract_value   |-> extract_contract_value(content.text),
          duration         |-> extract_duration(content.text),
          risk_level       |-> extract_risk_level(content.text),
          classification   |-> extract_classification(content.text),
          key_requirements |-> extract_requirements(content.text)]>>

\* what analyze_document_structure prints
structure_messages(content) ==
  IF content.kind # "str" THEN <<<<"Document analysis error">>>>
  ELSE <<<<"Document structure analysis completed">>>>

(***************************************************************************)
(* analyze_text_sentiment: the three answers of the text analytics service *)
(* are inputs; any of the three calls may raise.                           *)
(***************************************************************************)
\* l[:n]
Prefix(l, n) == SubSeq(l, 1, Min2(n, Len(l)))

\* the answers of the service: sentiment, confidence scores in hundredths,
\* key phrases and (text, category) entities
TextResponses ==
  { [sentiment |-> "positive", positive |-> 90, neutral |-> 8, negative |-> 2,
     key_phrases |-> [i \in 1..11 |-> "phrase"],
     entities    |-> <<<<"NATO", "Organization">>>>],
    [sentiment |-> "negative", positive |-> 5, neutral |-> 15, negative |-> 80,
     key_phrases |-> <<>>,
     entities    |-> [i \in 1..12 |-> <<"Brussels", "Location">>]] }

\* the analysis dict built from an answer
text_analysis_of(response) ==
  [sentiment         |-> response.sentiment,
   confidence_scores |-> [positive |-> response.positive,
                          neutral  |-> response.neutral,
                          negative |-> response.negative],
   key_phrases       |-> Prefix(response.key_phrases, 10),
   entities          |-> Prefix(response.entities, 10)]

\* <<>> for None when the service raised, else <<analysis>>
analyze_text_sentiment(outcome) ==
  IF outcome = <<>> THEN <<>> ELSE <<text_analysis_of(outcome[1])>>

\* what analyze_text_sentiment prints
text_messages(outcome) ==
  IF outcome = <<>> THEN <<<<"Text analysis error">>>>
  ELSE <<<<"Text analysis completed", outcome[1].sentiment>>>>

(***************************************************************************)
(* process_document, generate_insights_dashboard, generate_summary_report  *)
(***************************************************************************)
ResultKeys ==
  {"structure_analysis", "text_analysis", "ai_risk_classification",
   "processing_timestamp"}

\* {**document, 'structure_analysis': ..., ...}
combine_results(document, structure_data, text_analysis, label, now) ==
  [k \in DOMAIN document \cup ResultKeys |->
     IF k = "structure_analysis" THEN structure_data
     ELSE IF k = "text_analysis" THEN text_analysis
     ELSE IF k = "ai_risk_classification" THEN label
     ELSE IF k = "processing_timestamp" THEN now
     ELSE document[k]]

\* classified_document with the duration taken from the structure data
classified_document_extracted(document, structure_data) ==
  IF structure_data = <<>> THEN document
  ELSE [k \in DOMAIN document \cup {"duration"} |->
          IF k = "duration" THEN structure_data[1].duration ELSE document[k]]

\* the argument of classify_document_risk: the input document itself
classified_document(document, structure_data) == document

\* self.processed_documents.append(processed_doc)
append_processed_analysed(processed, processed_doc) ==
  IF processed_doc.text_analysis = <<>> \/ processed_doc.structure_analysis = <<>>
  THEN processed ELSE Append(processed, processed_doc)

append_processed(processed, processed_doc) == Append(processed, processed_doc)

T_ellipsis == <<".", ".", ".">>

\* doc['text_analysis']['sentiment'] if doc['text_analysis'] else 'Unknown'
row_sentiment(doc) ==
  IF doc.text_analysis # <<>> THEN doc.text_analysis[1].sentiment ELSE "Unknown"

\* one row of df_data
dashboard_row(doc) ==
  [doc_id                 |-> doc.doc_id,
   title                  |-> Prefix(doc.title, 30) \o T_ellipsis,
   value                  |-> doc.value,
   risk_level             |-> doc.risk_level,
   ai_risk_classification |-> doc.ai_risk_classification,
   sentiment              |-> row_sentiment(doc)]

df_data(processed) == [k \in 1..Len(processed) |-> dashboard_row(processed[k])]

RECURSIVE sum_values(_)
\* sum(doc['value'] for doc in self.processed_documents)
sum_values(processed) ==
  IF processed = <<>> THEN 0
  ELSE processed[1].value + sum_values(Tail(processed))

\* the dict of counts a loop of d[key] = d.get(key, 0) + 1 builds
count_by(keys) ==
  [key \in {keys[k] : k \in 1..Len(keys)} |->
     Cardinality({k \in 1..Len(keys) : keys[k] = key})]

risk_distribution(processed) ==
  count_by([k \in 1..Len(processed) |-> processed[k].ai_risk_classification])

HasTextAnalysis(doc) == doc.text_analysis # <<>>

sentiment_distribution(processed) ==
  LET analysed == SelectSeq(processed, HasTextAnalysis)
  IN  count_by([k \in 1..Len(analysed) |-> analysed[k].text_analysis[1].sentiment])

\* format(x, ',.0f') of total / n: the nearest integer, ties to the even one
rounded_quotient(total, n) ==
  LET q == total \div n
      r == total % n
  IN  IF 2 * r < n THEN q
      ELSE IF 2 * r > n THEN q + 1
      ELSE IF q % 2 = 0 THEN q ELSE q + 1

\* the figures generate_summary_report prints
summary_of(processed) ==
  [documents_processed    |-> Len(processed),
   total_value            |-> sum_values(processed),
   avg_value              |-> rounded_quotient(sum_values(processed), Len(processed)),
   risk_distribution      |-> risk_distribution(processed),
   sentiment_distribution |-> sentiment_distribution(processed)]

(***************************************************************************)
(* main() of nato_document_processor.py over a list of documents that is   *)
(* revealed as the loop reaches it.                                        *)
(***************************************************************************)
MaxDocs == 2

D_Title_Cyber == <<"C", "y", "b", "e", "r", "s", "e", "c", "u", "r", "i", "t",
                   "y", " ", "I", "n", "f", "r", "a", "s", "t", "r", "u", "c",
                   "t", "u", "r", "e", " ", "M", "o", "d", "e", "r", "n", "i",
                   "z", "a", "t", "i", "o", "n">>

D_Title_Training == <<"A", "I", "-", "E", "n", "h", "a", "n", "c", "e", "d",
                      " ", "T", "r", "a", "i", "n", "i", "n", "g", " ", "S",
                      "y", "s", "t", "e", "m", "s">>

D_Title_Analytics == <<"D", "a", "t", "a", " ", "A", "n", "a", "l", "y", "t",
                       "i", "c", "s", " ", "P", "l", "a", "t", "f", "o", "r",
                       "m", " ", "U", "p", "g", "r", "a", "d", "e">>

D_Content_Award == <<"C", "O", "N", "T", "R", "A", "C", "T", " ", "A", "W",
                     "A", "R", "D", " ", "N", "O", "T", "I", "C", "E", "\n",
                     " ", " ", "C", "o", "n", "t", "r", "a", "c", "t", " ",
                     "V", "a", "l", "u", "e", ":", " ", "euro", "3", ",", "2",
                     "5", "0", ",", "0", "0", "0", "\n", " ", " ", "D", "u",
                     "r", "a", "t", "i", "o", "n", ":", " ", "3", "0", " ",
                     "m", "o", "n", "t", "h", "s", "\n", " ", " ", "C", "l",
                     "a", "s", "s", "i", "f", "i", "c", "a", "t", "i", "o",
                     "n", ":", " ", "N", "A", "T", "O", " ", "U", "N", "C",
                     "L", "A", "S", "S", "I", "F", "I", "E", "D", "\n", " ",
                     " ", "R", "i", "s", "k", " ", "A", "s", "s", "e", "s",
                     "s", "m", "e", "n", "t", ":", " ", "H", "I", "G", "H",
                     " ", "-", " ", "C", "r", "i", "t", "i", "c", "a", "l",
                     "\n", "\n", " ", " ", "K", "e", "y", " ", "R", "e", "q",
                     "u", "i", "r", "e", "m", "e", "n", "t", "s", ":", "\n",
                     " ", " ", "-", " ", "Z", "e", "r", "o", "-", "t", "r",
                     "u", "s", "t", "\n", " ", " ", "-", " ", "S", "O", "C",
                     " ", "m", "o", "n", "i", "t", "o", "r", "i", "n", "g",
                     "\n", "\n", " ", " ", "D", "e", "l", "i", "v", "e", "r",
                     "a", "b", "l", "e", "s", ":", "\n", " ", " ", "-", " ",
                     "D", "e", "s", "i", "g", "n">>

D_Content_Request == <<"P", "R", "O", "C", "U", "R", "E", "M", "E", "N", "T",
                       " ", "R", "E", "Q", "U", "E", "S", "T", "\n", " ", " ",
                       "E", "s", "t", "i", "m", "a", "t", "e", "d", " ", "V",
                       "a", "l", "u", "e", ":", " ", "euro", "1", ",", "8",
                       "5", "0", ",", "0", "0", "0", "\n", " ", " ", "T", "i",
                       "m", "e", "l", "i", "n", "e", ":", " ", "2", "4", " ",
                       "m", "o", "n", "t", "h", "s", "\n", "\n", " ", " ",
                       "R", "e", "q", "u", "i", "r", "e", "m", "e", "n", "t",
                       "s", ":", "\n", " ", " ", "-", " ", "A", "d", "a", "p",
                       "t", "i", "v", "e", " ", "t", "r", "a", "i", "n", "i",
                       "n", "g", "\n", " ", " ", "-", " ", "V", "R", "\n",
                       " ", " ", "R", "i", "s", "k", " ", "A", "s", "s", "e",
                       "s", "s", "m", "e", "n", "t", ":", " ", "M", "E", "D",
                       "I", "U", "M", " ", "-", " ", "I", "n", "t", "e", "g",
                       "r", "a", "t", "i", "o", "n">>

\* documents with the keys of create_sample_documents; the second and the
\* third differ in their content only, the fourth has no text
SampleDocuments ==
  { [doc_id |-> "NATO-PROC-2024-001", title |-> D_Title_Cyber,
     content |-> Cell(D_Content_Award), document_type |-> "Contract Award",
     classification |-> "NATO UNCLASSIFIED", value |-> 3250000,
     risk_level |-> "HIGH", strategic_priority |-> T_URGENT],
    [doc_id |-> "NATO-PROC-2024-002", title |-> D_Title_Training,
     content |-> Cell(D_Content_Request), document_type |-> "Procurement Request",
     classification |-> "NATO UNCLASSIFIED", value |-> 1850000,
     risk_level |-> "MEDIUM", strategic_priority |-> T_HIGH],
    [doc_id |-> "NATO-PROC-2024-002", title |-> D_Title_Training,
     content |-> Cell(D_Content_Award), document_type |-> "Procurement Request",
     classification |-> "NATO UNCLASSIFIED", value |-> 1850000,
     risk_level |-> "MEDIUM", strategic_priority |-> T_HIGH],
    [doc_id |-> "NATO-PROC-2024-003", title |-> D_Title_Analytics,
     content |-> NoneCell, document_type |-> "Contract Modification",
     classification |-> "NATO UNCLASSIFIED", value |-> 980000,
     risk_level |-> "LOW-MEDIUM", strategic_priority |-> T_HIGH] }

\* datetime.now().isoformat()
ClockReadings == {"2024-06-01T10:00:00", "2024-06-01T10:00:01"}

\* <<>>: the service raises
TextOutcomes == {<<>>} \cup {<<response>> : response \in TextResponses}

InitDocs ==
  /\ pc = "processing"
  /\ documents = <<>>
  /\ processed_documents = <<>>
  /\ dashboard = <<>>
  /\ summary_report = <<>>
  /\ document_data = <<>>
  /\ risk_classification = ""
  /\ NoRequirements
  /\ NoCall /\ NoRow /\ NoParse /\ NoOutput /\ NoBidders /\ NoFiles

\* one turn of main's loop: process_document(document)
ProcessDocument ==
  /\ pc = "processing"
  /\ Len(documents) < MaxDocs
  /\ \E document \in SampleDocuments, outcome \in TextOutcomes, now \in ClockReadings :
       LET structure_data == analyze_document_structure(document.content)
           text_analysis  == analyze_text_sentiment(outcome)
           label          ==
             classify_document_risk(classified_document(document, structure_data)).label
           processed_doc  == combine_results(document, structure_data,
                                             text_analysis, label, now)
       IN  /\ documents' = Append(documents, document)
           /\ processed_documents' = append_processed(processed_documents, processed_doc)
           /\ output' = output \o structure_messages(document.content)
                               \o text_messages(outcome)
                               \o <<<<"Processing complete", label>>>>
  /\ UNCHANGED <<pc, dashboard, summary_report, document_data, risk_classification,
                 content_arg, requirements_out>>
  /\ UNCHANGED <<title, title2, contract_type, variation, estimated_value,
                 estimated_value2, bidder_count, risk_assessment, row_vars,
                 file_year, parse_vars, bidder_vars, files_vars>>

\* the loop is over: generate_insights_dashboard()
GenerateInsightsDashboard ==
  /\ pc = "processing"
  /\ pc' = "summary"
  /\ IF processed_documents = <<>>
     THEN /\ output' = Append(output, <<"No processed documents for visualization">>)
          /\ UNCHANGED dashboard
     ELSE /\ dashboard' = <<df_data(processed_documents)>>
          /\ output' = Append(output, <<"Intelligence dashboard generated">>)
  /\ UNCHANGED <<documents, processed_documents, summary_report, document_data,
                 risk_classification, content_arg, requirements_out>>
  /\ UNCHANGED <<title, title2, contract_type, variation, estimated_value,
                 estimated_value2, bidder_count, risk_assessment, row_vars,
                 file_year, parse_vars, bidder_vars, files_vars>>

\* generate_summary_report()
GenerateSummaryReport ==
  /\ pc = "summary"
  /\ pc' = "done"
  /\ IF processed_documents = <<>>
     THEN UNCHANGED summary_report
     ELSE summary_report' = <<summary_of(processed_documents)>>
  /\ UNCHANGED <<documents, processed_documents, dashboard, document_data,
                 risk_classification, output, content_arg, requirements_out>>
  /\ UNCHANGED <<title, title2, contract_type, variation, estimated_value,
                 estimated_value2, bidder_count, risk_assessment, row_vars,
                 file_year, parse_vars, bidder_vars, files_vars>>

NextDocs == ProcessDocument \/ GenerateInsightsDashboard \/ GenerateSummaryReport

SpecDocs == InitDocs /\ [][NextDocs]_vars

(***************************************************************************)
(* C20: every call of process_document appends exactly one entry to        *)
(* processed_documents, also when the structure analysis or the text       *)
(* analysis returned None: after n documents the list has n entries in     *)
(* call order, entry k keeps every field of the k-th input document and    *)
(* carries the four results; the dashboard shows the sentiment Unknown for *)
(* an entry without text analysis, the summary leaves it uncounted, and    *)
(* both steps complete.                                                    *)
(***************************************************************************)
Analysed(k) == processed_documents[k].text_analysis # <<>>

C20_OneEntryPerDocument ==
  /\ Len(processed_documents) = Len(documents)
  /\ \A k \in 1..Len(documents) :
       /\ k <= Len(processed_documents)
       /\ DOMAIN processed_documents[k] = DOMAIN documents[k] \cup ResultKeys
       /\ \A key \in DOMAIN documents[k] :
            processed_documents[k][key] = documents[k][key]
       /\ processed_documents[k].ai_risk_classification \in {"HIGH_RISK", "MEDIUM_RISK", "LOW_RISK"}
       /\ processed_documents[k].processing_timestamp \in ClockReadings
       /\ Len(processed_documents[k].structure_analysis) <= 1
       /\ Len(processed_documents[k].text_analysis) <= 1
  /\ (pc \in {"summary", "done"} /\ documents # <<>>) => dashboard # <<>>
  /\ dashboard # <<>> =>
       /\ Len(dashboard[1]) = Len(documents)
       /\ \A k \in 1..Len(dashboard[1]) :
            dashboard[1][k].sentiment =
              IF Analysed(k) THEN processed_documents[k].text_analysis[1].sentiment
              ELSE "Unknown"
  /\ (pc = "done" /\ documents # <<>>) => summary_report # <<>>
  /\ summary_report # <<>> =>
       LET counted == summary_report[1].sentiment_distribution
       IN  /\ summary_report[1].documents_processed = Len(documents)
           /\ "Unknown" \notin DOMAIN counted
           /\ \A k \in 1..Len(processed_documents) :
                Analysed(k) =>
                  processed_documents[k].text_analysis[1].sentiment \in DOMAIN counted
           /\ \A s \in DOMAIN counted :
                counted[s] =
                  Cardinality({k \in 1..Len(processed_documents) :
                                 /\ Analysed(k)
                                 /\ processed_documents[k].text_analysis[1].sentiment = s})

\* two documents went through, the first with both analyses None, the second
\* with a text analysis, and the dashboard and the summary were produced
C20_Witness ==
  /\ pc = "done"
  /\ Len(processed_documents) = 2
  /\ processed_documents[1].structure_analysis = <<>>
  /\ processed_documents[1].text_analysis = <<>>
  /\ processed_documents[2].text_analysis # <<>>
  /\ dashboard # <<>>
  /\ dashboard[1][1].sentiment = "Unknown"
  /\ summary_report # <<>>
  /\ DOMAIN summary_report[1].sentiment_distribution # {}

(***************************************************************************)
(* extract_requirements as an operation: the content is put together from  *)
(* pieces of one or three lines                                            *)
(***************************************************************************)
MaxPieces == 4

R_Header == <<" ", " ", "K", "e", "y", " ", "R", "e", "q", "u", "i", "r", "e",
              "m", "e", "n", "t", "s", ":">>

R_Bullet == <<" ", " ", "-", " ", "Z", "e", "r", "o", "-", "t", "r", "u", "s",
              "t", " ">>

R_ThreeBullets == <<"-", " ", "S", "O", "C", "\n", " ", " ", "-", "V", "R",
                    "\n", " ", "-", "-", "x">>

R_Blank == <<" ", " ">>

R_Text == <<"D", "e", "l", "i", "v", "e", "r", "a", "b", "l", "e", "s">>

R_BulletHeader == <<"-", " ", "T", "e", "s", "t", " ", "R", "e", "q", "u",
                    "i", "r", "e", "m", "e", "n", "t", "s", ":", " ", "y",
                    "e", "a", "r", "l", "y">>

ContentPieces ==
  {R_Header, R_Bullet, R_ThreeBullets, R_Blank, <<>>, R_Text, R_BulletHeader}

RECURSIVE ContentsOf(_)
\* the texts of n pieces joined by line breaks
ContentsOf(n) ==
  IF n = 0 THEN {<<>>}
  ELSE IF n = 1 THEN ContentPieces
  ELSE {c \o <<"\n">> \o piece : c \in ContentsOf(n - 1), piece \in ContentPieces}

RequirementContents == UNION {ContentsOf(n) : n \in 0..MaxPieces}

InitRequirements ==
  /\ pc = "requirements_call"
  /\ content_arg \in RequirementContents
  /\ requirements_out = <<>>
  /\ document_data = <<>> /\ risk_classification = ""
  /\ documents = <<>> /\ processed_documents = <<>>
  /\ dashboard = <<>> /\ summary_report = <<>>
  /\ NoCall /\ NoRow /\ NoParse /\ NoOutput /\ NoBidders /\ NoFiles

ExtractRequirements ==
  /\ pc = "requirements_call"
  /\ requirements_out' = extract_requirements(content_arg)
  /\ pc' = "requirements_return"
  /\ UNCHANGED <<title, title2, contract_type, variation, estimated_value,
                 estimated_value2, bidder_count, risk_assessment, row_vars,
                 file_year, parse_vars, output, bidder_vars, files_vars,
                 document_data, risk_classification, documents,
                 processed_documents, dashboard, summary_report, content_arg>>

NextRequirements == ExtractRequirements

SpecRequirements == InitRequirements /\ [][NextRequirements]_vars

(***************************************************************************)
(* C21: extract_requirements returns at most 5 items, the first 5 of: the  *)
(* texts (dash removed, trimmed) of the lines starting with '-' that lie   *)
(* after the first line containing 'Requirements:' and before the first    *)
(* blank line after it, in line order; nothing when there is no such       *)
(* header line.                                                            *)
(***************************************************************************)
ReqLines == split_lines(content_arg)

HeaderLine(k) == Contains(ReqLines[k], P_Requirements)

BlankLine(k) == \A i \in 1..Len(ReqLines[k]) : IsSpace(ReqLines[k][i])

DashLine(k) == ~BlankLine(k) /\ strip(ReqLines[k])[1] = "-"

HeaderLines == {k \in 1..Len(ReqLines) : HeaderLine(k)}

\* the first blank line after the first header, or one past the last line
StopLine ==
  LET blanks == {k \in 1..Len(ReqLines) : k > SetMin(HeaderLines) /\ BlankLine(k)}
  IN  IF blanks = {} THEN Len(ReqLines) + 1 ELSE SetMin(blanks)

\* the elements of a set of numbers in increasing order
Ascending(S) ==
  [i \in 1..Cardinality(S) |-> CHOOSE x \in S : Cardinality({y \in S : y <= x}) = i]

ItemText(k) == strip(Tail(strip(ReqLines[k])))

\* the claim for the given set of contributing lines
ReturnsFirstFiveOf(contributing) ==
  LET order == Ascending(contributing)
      n     == Min2(5, Len(order))
  IN  requirements_out = [i \in 1..n |-> ItemText(order[i])]

C21_EveryDashLineCollected ==
  pc = "requirements_return" =>
    IF HeaderLines = {} THEN requirements_out = <<>>
    ELSE ReturnsFirstFiveOf({k \in 1..Len(ReqLines) :
           k > SetMin(HeaderLines) /\ k < StopLine /\ DashLine(k)})

\* What the loop does: its first test takes a dash line that itself contains
\* 'Requirements:' as a header, so that line contributes nothing.
DashLinesExceptHeadersCollected ==
  pc = "requirements_return" =>
    /\ Len(requirements_out) <= 5
    /\ IF HeaderLines = {} THEN requirements_out = <<>>
       ELSE ReturnsFirstFiveOf({k \in 1..Len(ReqLines) :
              /\ k > SetMin(HeaderLines) /\ k < StopLine
              /\ DashLine(k) /\ ~HeaderLine(k)})

\* a header, a collected item, a blank line and a dash line after it that is
\* not returned
StoppedAtBlankLine ==
  /\ pc = "requirements_return"
  /\ HeaderLines # {}
  /\ requirements_out # <<>>
  /\ StopLine <= Len(ReqLines)
  /\ \E k \in 1..Len(ReqLines) : k > StopLine /\ DashLine(k) /\ ~HeaderLine(k)

(***************************************************************************)
(* C25: the AI risk classification of process_document is computed from    *)
(* the input document's own fields, not from the extracted structure data: *)
(* two processed documents with equal value, duration and                  *)
(* strategic_priority fields have the same ai_risk_classification,         *)
(* whatever their content texts state.                                     *)
(***************************************************************************)
\* a field of a document, absent fields being equal to each other only
FieldOf(doc, key) == IF key \in DOMAIN doc THEN <<doc[key]>> ELSE <<>>

SameRiskFields(a, b) ==
  \A key \in {"value", "duration", "strategic_priority"} :
    FieldOf(a, key) = FieldOf(b, key)

C25_ClassificationFromOwnFields ==
  \A j, k \in 1..Len(processed_documents) :
    SameRiskFields(documents[j], documents[k]) =>
      processed_documents[j].ai_risk_classification =
        processed_documents[k].ai_risk_classification

\* two processed documents that differ in their content only, whose texts
\* state different durations and values
C25_Witness ==
  /\ Len(processed_documents) = 2
  /\ SameRiskFields(documents[1], documents[2])
  /\ documents[1].content # documents[2].content
  /\ [documents[1] EXCEPT !.content = documents[2].content] = documents[2]
  /\ processed_documents[1].structure_analysis # <<>>
  /\ processed_documents[2].structure_analysis # <<>>
  /\ processed_documents[1].structure_analysis[1].duration #
       processed_documents[2].structure_analysis[1].duration
  /\ processed_documents[1].structure_analysis[1].contract_value #
       processed_documents[2].structure_analysis[1].contract_value
====
